---- MODULE Spec2Model ----
(***************************************************************************)
(* Model of the chatbot knowledge store (chatbot/knowledge_base.py), the   *)
(* CSV training pipeline storage (chatbot/training_pipeline.py), the JSON  *)
(* bridge writers and the retrieval / response path                        *)
(* (chatbot/core/llm_integration.py, chatbot/core/chatbot_engine.py).      *)
(***************************************************************************)
EXTENDS Integers, Sequences, FiniteSets, TLC

(***************************************************************************)
(* Bounds                                                                  *)
(***************************************************************************)
MaxClock == 4        \* number of KnowledgeBase calls in one behaviour

(***************************************************************************)
(* Strings are sequences of one-character strings.                         *)
(***************************************************************************)
Chars == {" ", "a"}

\* content arguments: plain, padded, whitespace only, empty
Contents == {<<"a">>, <<" ", "a">>, <<" ">>, <<>>}

\* company ids: "/" and "_" differ only in a character outside the safe set
CompanyIds == {<<"/">>, <<"_">>}

\* company ids and session ids of the conversations: with and without ':'
ColonIds == {<<"_">>, <<"_", ":", "_">>}

\* client ids, which ClientManager.register_client draws with uuid4
ClientIds == {<<"a">>, <<"b">>}

\* every id that names a directory or a file of the data directory
AllCompanyIds == CompanyIds \cup ColonIds \cup ClientIds

MetaKeys == {"k"}
Metadatas == SUBSET MetaKeys


(***************************************************************************)
(* Pure helpers of KnowledgeBase                                           *)
(***************************************************************************)
safe_chars == {"a", "b", "c", "-", "_"}

_sanitize_filename(filename) ==
    [i \in 1..Len(filename) |->
        IF filename[i] \in safe_chars THEN filename[i] ELSE "_"]

_get_company_file_path(company_id) == _sanitize_filename(company_id)

FileStems == {_get_company_file_path(c) : c \in AllCompanyIds}

\* the whitespace characters of the model (Python \s)
Whitespace == {" ", "\n"}

RECURSIVE lstrip(_)
lstrip(s) == IF s # <<>> /\ Head(s) \in Whitespace THEN lstrip(Tail(s)) ELSE s

RECURSIVE rstrip(_)
rstrip(s) ==
    IF s # <<>> /\ s[Len(s)] \in Whitespace
    THEN rstrip(SubSeq(s, 1, Len(s) - 1)) ELSE s

\* str.strip()
strip(s) == rstrip(lstrip(s))

CharCode(ch) == IF ch = " " THEN 1 ELSE 2

\* hashlib.md5(content.encode()).hexdigest(): a digest of the exact bytes,
\* modelled as a collision-free positional code of the characters
RECURSIVE _get_content_hash(_)
_get_content_hash(content) ==
    IF content = <<>> THEN 0
    ELSE 3 * _get_content_hash(SubSeq(content, 1, Len(content) - 1))
         + CharCode(content[Len(content)])

(***************************************************************************)
(* State                                                                   *)
(***************************************************************************)
VARIABLES
    knowledge_cache,   \* KnowledgeBase.knowledge_cache: dict company_id -> list of entries
    files,             \* <stem>_knowledge.json files of the data directory
    clock,             \* time.time(), one tick per call
    next_id,           \* source of fresh uuid4 values
    last,              \* the call that has just returned
    returned,          \* list returned by the last listing / search call
    tmp_files,         \* <stem>_knowledge.json.tmp files
    knowledge_csv,     \* knowledge/<company>/knowledge.csv
    vectors_csv,       \* knowledge/<company>/vectors.csv
    analysis_csv,      \* knowledge/<company>/analysis.csv
    writer,            \* the writer of a JSON file that is in progress
    processed,         \* result of the last TrainingPipeline.process_content
    conversations,     \* ChatbotEngine.conversations: dict key -> ConversationContext
    now,               \* time.time() of the chatbot engine, in seconds
    similarity_threshold,  \* LLMIntegration.similarity_threshold, in tenths
    response,          \* the last ChatbotEngine.get_response call and its result
    pure,              \* the last call of a function without state, and its result
    clients,           \* clients.csv of the ClientManager: one row per client
    threads,           \* the get_response call each server thread is executing
    crawl              \* the scrape_website call of the WebScraper

kbvars == <<knowledge_cache, files, clock, next_id, last, returned>>
fsvars == <<tmp_files, knowledge_csv, vectors_csv, analysis_csv, writer, processed>>
chatvars == <<conversations, now, similarity_threshold, response>>
textvars == <<pure>>
appvars == <<clients, threads, crawl>>
nonkb == <<fsvars, chatvars, textvars, appvars>>
fsvars_csv == <<tmp_files, knowledge_csv, vectors_csv, analysis_csv, processed>>
vars == <<kbvars, fsvars, chatvars, textvars, appvars>>

AbsentFile == [state |-> "absent", company_id |-> <<>>, knowledge |-> <<>>]

NoCall == [op |-> "none", company_id |-> <<>>, content |-> <<>>, ret_id |-> 0,
           ret_ok |-> FALSE, ret_count |-> 0, raised |-> FALSE,
           write_failed |-> FALSE, len_before |-> 0, was_stored |-> FALSE]

Source == <<"m">>      \* the source argument of every call

(***************************************************************************)
(* dict / list helpers                                                     *)
(***************************************************************************)
\* self.knowledge_cache.get(company_id, [])
CacheGet(cache, company_id) ==
    IF company_id \in DOMAIN cache THEN cache[company_id] ELSE <<>>

\* self.knowledge_cache[company_id] = entries
CachePut(cache, company_id, entries) ==
    [k \in (DOMAIN cache) \cup {company_id} |->
        IF k = company_id THEN entries ELSE cache[k]]

\* the least element of a non-empty set of numbers
Least(S) == CHOOSE x \in S : \A y \in S : x <= y

\* list.pop(i)
RemoveAt(s, i) == [j \in 1..(Len(s) - 1) |-> IF j < i THEN s[j] ELSE s[j + 1]]

\* index of the first entry whose content hashes to content_hash, 0 if none
FirstWithHash(entries, content_hash) ==
    IF \E i \in 1..Len(entries) : _get_content_hash(entries[i].content) = content_hash
    THEN CHOOSE i \in 1..Len(entries) :
            /\ _get_content_hash(entries[i].content) = content_hash
            /\ \A j \in 1..(i - 1) :
                  _get_content_hash(entries[j].content) # content_hash
    ELSE 0

\* index of the first entry with the given id, 0 if none
FirstWithId(entries, entry_id) ==
    IF \E i \in 1..Len(entries) : entries[i].id = entry_id
    THEN CHOOSE i \in 1..Len(entries) :
            entries[i].id = entry_id /\ \A j \in 1..(i - 1) : entries[j].id # entry_id
    ELSE 0

\* sub in s (Python substring test)
IsSubstring(sub, s) ==
    \E i \in 0..(Len(s) - Len(sub)) : SubSeq(s, i + 1, i + Len(sub)) = sub

\* s.count(sub): non-overlapping occurrences, scanning left to right
RECURSIVE CountSub(_, _)
CountSub(sub, s) ==
    IF Len(sub) = 0 THEN Len(s) + 1
    ELSE IF Len(s) < Len(sub) THEN 0
    ELSE IF SubSeq(s, 1, Len(sub)) = sub
         THEN 1 + CountSub(sub, SubSeq(s, Len(sub) + 1, Len(s)))
         ELSE CountSub(sub, Tail(s))

(***************************************************************************)
(* Storage: _load_company_knowledge / _save_company_knowledge              *)
(***************************************************************************)
\* entries read from the company's file; a missing or unparsable file gives []
LoadedEntries(fs, company_id) ==
    LET f == fs[_get_company_file_path(company_id)]
    IN IF f.state = "complete" THEN f.knowledge ELSE <<>>

_load_company_knowledge(cache, fs, company_id) ==
    CachePut(cache, company_id, LoadedEntries(fs, company_id))

\* if company_id not in self.knowledge_cache: self._load_company_knowledge(company_id)
EnsureLoaded(cache, fs, company_id) ==
    IF company_id \in DOMAIN cache THEN cache
    ELSE _load_company_knowledge(cache, fs, company_id)

\* the file after a save of the cached list; ok = FALSE is a failed write,
\* which leaves the target file as it was (the rename never happened)
_save_company_knowledge(fs, cache, company_id, ok) ==
    IF ok
    THEN [fs EXCEPT ![_get_company_file_path(company_id)] =
            [state |-> "complete", company_id |-> company_id,
             knowledge |-> CacheGet(cache, company_id)]]
    ELSE fs

\* _load_all_knowledge on a fresh cache: one key per *_knowledge.json file
_load_all_knowledge(fs) ==
    [stem \in {t \in FileStems : fs[t].state # "absent"} |->
        LoadedEntries(fs, stem)]

(***************************************************************************)
(* KnowledgeBase operations.  ok is the outcome of the durable write.      *)
(***************************************************************************)
Call(op, company_id, content) ==
    [NoCall EXCEPT !.op = op, !.company_id = company_id, !.content = content]

\* result of add_knowledge: the cache, the files, the returned id, raised
add_knowledge(cache, fs, company_id, content, metadata, ok) ==
    LET cache0 == IF company_id \in DOMAIN cache THEN cache
                  ELSE CachePut(cache, company_id, <<>>)
        entries == cache0[company_id]
        content_hash == _get_content_hash(content)
        i == FirstWithHash(entries, content_hash)
        entry == [id |-> next_id, company_id |-> company_id,
                  content |-> strip(content), source |-> Source,
                  metadata |-> metadata,
                  created_at |-> clock, updated_at |-> clock]
    IN IF i > 0
       THEN LET cache1 == CachePut(cache0, company_id,
                             [entries EXCEPT ![i].updated_at = clock,
                                             ![i].metadata = metadata])
            IN [cache |-> cache1,
                files |-> _save_company_knowledge(fs, cache1, company_id, ok),
                ret_id |-> entries[i].id, raised |-> FALSE]
       ELSE LET cache1 == CachePut(cache0, company_id, Append(entries, entry))
            IN IF ok
               THEN [cache |-> cache1,
                     files |-> _save_company_knowledge(fs, cache1, company_id, ok),
                     ret_id |-> entry.id, raised |-> FALSE]
               ELSE [cache |-> cache0, files |-> fs,
                     ret_id |-> 0, raised |-> TRUE]

\* content stored for the company, compared as the caller sees it (stripped)
Stored(cache, company_id, content) ==
    \E i \in 1..Len(CacheGet(cache, company_id)) :
        CacheGet(cache, company_id)[i].content = strip(content)

AddKnowledge(company_id, content, metadata, ok) ==
    /\ clock < MaxClock
    /\ LET r == add_knowledge(knowledge_cache, files, company_id, content,
                              metadata, ok)
       IN /\ knowledge_cache' = r.cache
          /\ files' = r.files
          /\ last' = [Call("add", company_id, content) EXCEPT
                        !.ret_id = r.ret_id, !.raised = r.raised,
                        !.write_failed = ~ok,
                        !.len_before = Len(CacheGet(knowledge_cache, company_id)),
                        !.was_stored = Stored(knowledge_cache, company_id, content)]
    /\ clock' = clock + 1
    /\ next_id' = next_id + 1
    /\ UNCHANGED returned
    /\ UNCHANGED nonkb

\* the value None of an optional argument
NoContent == <<"None">>
NoMetadata == {"None"}

update_knowledge(cache, fs, company_id, entry_id, content, metadata, ok) ==
    LET has_content == content # NoContent
        has_metadata == metadata # NoMetadata
        cache0 == EnsureLoaded(cache, fs, company_id)
        entries == CacheGet(cache0, company_id)
        i == FirstWithId(entries, entry_id)
    IN IF i > 0
       THEN LET e1 == [entries[i] EXCEPT
                         !.content = IF has_content THEN strip(content) ELSE @,
                         !.metadata = IF has_metadata THEN @ \cup metadata ELSE @,
                         !.updated_at = clock]
                cache1 == CachePut(cache0, company_id, [entries EXCEPT ![i] = e1])
            IN [cache |-> cache1,
                files |-> _save_company_knowledge(fs, cache1, company_id, ok),
                ret_ok |-> ok, found |-> TRUE]
       ELSE [cache |-> cache0, files |-> fs, ret_ok |-> FALSE, found |-> FALSE]

UpdateKnowledge(company_id, entry_id, content, metadata, ok) ==
    /\ clock < MaxClock
    /\ LET r == update_knowledge(knowledge_cache, files, company_id, entry_id,
                                 content, metadata, ok)
       IN /\ knowledge_cache' = r.cache
          /\ files' = r.files
          /\ last' = [Call("update", company_id, content) EXCEPT
                        !.ret_ok = r.ret_ok,
                        !.write_failed = r.found /\ ~ok,
                        !.len_before = Len(CacheGet(knowledge_cache, company_id))]
    /\ clock' = clock + 1
    /\ UNCHANGED <<next_id, returned>>
    /\ UNCHANGED nonkb

delete_knowledge(cache, fs, company_id, entry_id, ok) ==
    LET cache0 == EnsureLoaded(cache, fs, company_id)
        entries == CacheGet(cache0, company_id)
        i == FirstWithId(entries, entry_id)
    IN IF i > 0
       THEN LET cache1 == CachePut(cache0, company_id, RemoveAt(entries, i))
            IN [cache |-> cache1,
                files |-> _save_company_knowledge(fs, cache1, company_id, ok),
                ret_ok |-> ok, found |-> TRUE]
       ELSE [cache |-> cache0, files |-> fs, ret_ok |-> FALSE, found |-> FALSE]

DeleteKnowledge(company_id, entry_id, ok) ==
    /\ clock < MaxClock
    /\ LET r == delete_knowledge(knowledge_cache, files, company_id, entry_id, ok)
       IN /\ knowledge_cache' = r.cache
          /\ files' = r.files
          /\ last' = [Call("delete", company_id, <<>>) EXCEPT
                        !.ret_ok = r.ret_ok,
                        !.write_failed = r.found /\ ~ok,
                        !.len_before = Len(CacheGet(knowledge_cache, company_id))]
    /\ clock' = clock + 1
    /\ UNCHANGED <<next_id, returned>>
    /\ UNCHANGED nonkb

clear_company_knowledge(cache, fs, company_id, ok) ==
    LET cache0 == EnsureLoaded(cache, fs, company_id)
        entries_count == Len(CacheGet(cache0, company_id))
        cache1 == CachePut(cache0, company_id, <<>>)
    IN IF ok
       THEN [cache |-> cache1,
             files |-> _save_company_knowledge(fs, cache1, company_id, ok),
             ret_count |-> entries_count]
       ELSE [cache |-> _load_company_knowledge(cache1, fs, company_id),
             files |-> fs, ret_count |-> 0]

ClearCompanyKnowledge(company_id, ok) ==
    /\ clock < MaxClock
    /\ LET r == clear_company_knowledge(knowledge_cache, files, company_id, ok)
       IN /\ knowledge_cache' = r.cache
          /\ files' = r.files
          /\ last' = [Call("clear", company_id, <<>>) EXCEPT
                        !.ret_count = r.ret_count, !.write_failed = ~ok,
                        !.len_before = Len(CacheGet(knowledge_cache, company_id))]
    /\ clock' = clock + 1
    /\ UNCHANGED <<next_id, returned>>
    /\ UNCHANGED nonkb

get_company_knowledge(cache, fs, company_id) ==
    CacheGet(EnsureLoaded(cache, fs, company_id), company_id)

GetCompanyKnowledge(company_id) ==
    /\ clock < MaxClock
    /\ knowledge_cache' = EnsureLoaded(knowledge_cache, files, company_id)
    /\ returned' = get_company_knowledge(knowledge_cache, files, company_id)
    /\ last' = Call("get", company_id, <<>>)
    /\ clock' = clock + 1
    /\ UNCHANGED <<files, next_id>>
    /\ UNCHANGED nonkb

\* relevance_score of search_knowledge for one entry
relevance_score(entry, query) ==
    (IF IsSubstring(query, entry.content) THEN CountSub(query, entry.content) * 2
     ELSE 0)
    + (IF IsSubstring(query, entry.source) THEN 1 ELSE 0)

\* matches.sort(key=lambda x: x['relevance_score'], reverse=True): stable
RECURSIVE SortByRelevance(_)
SortByRelevance(s) ==
    IF s = <<>> THEN <<>>
    ELSE LET i == CHOOSE i \in 1..Len(s) :
                    /\ \A j \in 1..Len(s) :
                          s[j].relevance_score <= s[i].relevance_score
                    /\ \A j \in 1..(i - 1) :
                          s[j].relevance_score < s[i].relevance_score
         IN <<s[i]>> \o SortByRelevance(RemoveAt(s, i))

search_knowledge(cache, fs, company_id, query) ==
    LET entries == get_company_knowledge(cache, fs, company_id)
        Matches(e) == \/ IsSubstring(query, e.content)
                      \/ IsSubstring(query, e.source)
        matched == SelectSeq(entries, Matches)
        match_data == [i \in 1..Len(matched) |->
                         matched[i] @@
                         [relevance_score |-> relevance_score(matched[i], query)]]
    IN SortByRelevance(match_data)

SearchKnowledge(company_id, query) ==
    /\ clock < MaxClock
    /\ knowledge_cache' = EnsureLoaded(knowledge_cache, files, company_id)
    /\ returned' = search_knowledge(knowledge_cache, files, company_id, query)
    /\ last' = Call("search", company_id, query)
    /\ clock' = clock + 1
    /\ UNCHANGED <<files, next_id>>
    /\ UNCHANGED nonkb

\* process restart: KnowledgeBase.__init__ over the same storage directory
Restart ==
    /\ clock < MaxClock
    /\ knowledge_cache' = _load_all_knowledge(files)
    /\ last' = Call("restart", <<>>, <<>>)
    /\ clock' = clock + 1
    /\ UNCHANGED <<files, next_id, returned>>
    /\ UNCHANGED nonkb

Queries == {<<"a">>}

\* entry ids a caller may pass: every id handed out so far, and unknown ones
EntryIds == 1..(MaxClock - 1)

\* metadata arguments of update_knowledge: None or a dict with one key
UpdateMetadatas == {NoMetadata, MetaKeys}

KBInit ==
    /\ knowledge_cache = <<>>
    /\ files = [stem \in FileStems |-> AbsentFile]
    /\ clock = 1
    /\ next_id = 1
    /\ last = NoCall
    /\ returned = <<>>

KBNext ==
    \/ \E c \in CompanyIds, x \in Contents, m \in Metadatas, ok \in BOOLEAN :
          AddKnowledge(c, x, m, ok)
    \/ \E c \in CompanyIds, id \in EntryIds,
          x \in Contents \cup {NoContent}, m \in UpdateMetadatas,
          ok \in BOOLEAN :
          UpdateKnowledge(c, id, x, m, ok)
    \/ \E c \in CompanyIds, id \in EntryIds, ok \in BOOLEAN :
          DeleteKnowledge(c, id, ok)
    \/ \E c \in CompanyIds, ok \in BOOLEAN : ClearCompanyKnowledge(c, ok)
    \/ \E c \in CompanyIds : GetCompanyKnowledge(c)
    \/ \E c \in CompanyIds, q \in Queries : SearchKnowledge(c, q)
    \/ Restart

(***************************************************************************)
(* TrainingPipeline and EnhancedCSVStorage (chatbot/training_pipeline.py)  *)
(***************************************************************************)
MaxProcess == 2      \* number of process_content calls in one behaviour

ModelName == "nomic-embed-text"

\* what the embedding backend does for one call: an embedding under the
\* configured model, no backend at all, or a failure of embed_documents
EmbedOutcomes ==
    {[backend |-> "ok", vector |-> <<1, 0>>], [backend |-> "ok", vector |-> <<1, 1>>],
     [backend |-> "none", vector |-> <<>>], [backend |-> "error", vector |-> <<>>]}

VectorDim == 2       \* stands for the 768 columns of the fallback vector

ZeroVector == [i \in 1..VectorDim |-> 0]

\* the stage of process_content at which an exception is raised
FailPoints == {"none", "analyze", "knowledge_csv", "vectors_csv",
               "analysis_csv", "bridge_open", "bridge_dump"}

AbsentCsv == [exists |-> FALSE, rows |-> <<>>]

\* TextChunker.chunk_text for a text of one paragraph below chunk_size words
chunk_text(content) ==
    IF strip(content) = <<>> THEN <<>>
    ELSE <<[chunk_index |-> 0, content |-> strip(content)]>>

\* OllamaVectorizer.vectorize_chunks
vectorize_chunks(chunks, embed) ==
    [i \in 1..Len(chunks) |->
        IF embed.backend = "ok"
        THEN [chunk |-> chunks[i], vector |-> embed.vector, vector_model |-> ModelName]
        ELSE [chunk |-> chunks[i], vector |-> ZeroVector,
              vector_model |-> embed.backend]]

KnowledgeHeader ==
    [kind |-> "header", id |-> 0, content |-> <<>>, created_at |-> 0,
     is_active |-> FALSE, enhanced |-> TRUE, vector_model |-> "vector_model"]

\* EnhancedCSVStorage._save_knowledge_entry: append, header first if new
_save_knowledge_entry(knowledge, csv) ==
    LET row == [kind |-> "data", id |-> knowledge.id,
                content |-> knowledge.original_content,
                created_at |-> knowledge.created_at, is_active |-> TRUE,
                enhanced |-> TRUE,
                vector_model |-> IF knowledge.chunks # <<>>
                                 THEN knowledge.chunks[1].vector_model ELSE "none"]
    IN [exists |-> TRUE,
        rows |-> (IF csv.exists THEN csv.rows ELSE <<KnowledgeHeader>>) \o <<row>>]

\* EnhancedCSVStorage._save_vector_data: the header fixes the number of
\* vector columns from the first chunk written to a new file
_save_vector_data(knowledge, csv) ==
    LET vector_dim == IF knowledge.chunks # <<>>
                      THEN Len(knowledge.chunks[1].vector) ELSE VectorDim
        header == [kind |-> "header", knowledge_id |-> 0, chunk_index |-> 0,
                   chunk_content |-> <<>>,
                   vector |-> [i \in 1..vector_dim |-> 0],
                   vector_model |-> "vector_model"]
        rows == [i \in 1..Len(knowledge.chunks) |->
                    [kind |-> "data", knowledge_id |-> knowledge.id,
                     chunk_index |-> knowledge.chunks[i].chunk.chunk_index,
                     chunk_content |-> knowledge.chunks[i].chunk.content,
                     vector |-> knowledge.chunks[i].vector,
                     vector_model |-> knowledge.chunks[i].vector_model]]
    IN [exists |-> TRUE,
        rows |-> (IF csv.exists THEN csv.rows ELSE <<header>>) \o rows]

\* EnhancedCSVStorage._save_analysis_data
_save_analysis_data(knowledge, csv) ==
    LET header == [kind |-> "header", knowledge_id |-> 0, chunk_index |-> 0]
        rows == [i \in 1..Len(knowledge.chunks) |->
                    [kind |-> "data", knowledge_id |-> knowledge.id,
                     chunk_index |-> knowledge.chunks[i].chunk.chunk_index]]
    IN [exists |-> TRUE,
        rows |-> (IF csv.exists THEN csv.rows ELSE <<header>>) \o rows]

\* _csv_row_to_json_entry: the JSON entry KnowledgeBase expects
_csv_row_to_json_entry(row, company_id) ==
    [id |-> row.id, company_id |-> company_id, content |-> row.content,
     source |-> Source,
     metadata |-> IF row.enhanced THEN {"enhanced_processing", "vector_model"}
                  ELSE {"enhanced_processing"},
     created_at |-> row.created_at, updated_at |-> row.created_at]

RECURSIVE ActiveEntries(_, _)
\* rows with is_active = 'true', converted, in file order
ActiveEntries(rows, company_id) ==
    IF rows = <<>> THEN <<>>
    ELSE (IF Head(rows).is_active
          THEN <<_csv_row_to_json_entry(Head(rows), company_id)>> ELSE <<>>)
         \o ActiveEntries(Tail(rows), company_id)

\* the entry list create_json_bridge builds from knowledge.csv: a first row
\* that is not the header is taken as data without the is_active test
bridge_entries(csv, company_id) ==
    IF csv.rows = <<>> THEN <<>>
    ELSE (IF Head(csv.rows).kind = "header" THEN <<>>
          ELSE <<_csv_row_to_json_entry(Head(csv.rows), company_id)>>)
         \o ActiveEntries(Tail(csv.rows), company_id)

PartialFile == [state |-> "partial", company_id |-> <<>>, knowledge |-> <<>>]

\* EnhancedCSVStorage.create_json_bridge as one call; fail is the point at
\* which the write of the JSON file raises
create_json_bridge(fs, csv, company_id, fail) ==
    LET path == _sanitize_filename(company_id)
    IN IF ~csv.exists \/ fail = "bridge_open" THEN fs
       ELSE IF fail = "bridge_dump" THEN [fs EXCEPT ![path] = PartialFile]
       ELSE [fs EXCEPT ![path] =
                [state |-> "complete", company_id |-> company_id,
                 knowledge |-> bridge_entries(csv, company_id)]]

\* EnhancedCSVStorage.save_processed_knowledge: the three appends in order,
\* then the bridge, whose failure is only logged
save_processed_knowledge(knowledge, fail) ==
    LET c == knowledge.company_id
        k1 == _save_knowledge_entry(knowledge, knowledge_csv[c])
        v1 == _save_vector_data(knowledge, vectors_csv[c])
        a1 == _save_analysis_data(knowledge, analysis_csv[c])
    IN IF fail = "knowledge_csv"
       THEN [ok |-> FALSE, k |-> knowledge_csv[c], v |-> vectors_csv[c],
             a |-> analysis_csv[c], files |-> files]
       ELSE IF fail = "vectors_csv"
       THEN [ok |-> FALSE, k |-> k1, v |-> vectors_csv[c],
             a |-> analysis_csv[c], files |-> files]
       ELSE IF fail = "analysis_csv"
       THEN [ok |-> FALSE, k |-> k1, v |-> v1, a |-> analysis_csv[c],
             files |-> files]
       ELSE [ok |-> TRUE, k |-> k1, v |-> v1, a |-> a1,
             files |-> create_json_bridge(files, k1, c, fail)]

NoProcess == [called |-> FALSE, company_id |-> <<>>, id |-> 0, ok |-> FALSE]

\* TrainingPipeline.process_content
ProcessContent(content, company_id, embed, fail) ==
    /\ clock <= MaxProcess
    /\ clock' = clock + 1
    /\ IF strip(content) = <<>> \/ fail = "analyze"
       THEN /\ processed' = [called |-> TRUE, company_id |-> company_id,
                             id |-> 0, ok |-> FALSE]
            /\ UNCHANGED <<next_id, knowledge_csv, vectors_csv, analysis_csv, files>>
       ELSE LET knowledge ==
                   [id |-> next_id, company_id |-> company_id,
                    original_content |-> content,
                    chunks |-> vectorize_chunks(chunk_text(content), embed),
                    created_at |-> clock]
                r == save_processed_knowledge(knowledge, fail)
            IN /\ next_id' = next_id + 1
               /\ knowledge_csv' = [knowledge_csv EXCEPT ![company_id] = r.k]
               /\ vectors_csv' = [vectors_csv EXCEPT ![company_id] = r.v]
               /\ analysis_csv' = [analysis_csv EXCEPT ![company_id] = r.a]
               /\ files' = r.files
               /\ processed' = [called |-> TRUE, company_id |-> company_id,
                                id |-> knowledge.id, ok |-> r.ok]
    /\ UNCHANGED <<knowledge_cache, last, returned, tmp_files, writer>>
    /\ UNCHANGED <<chatvars, textvars, appvars>>

NoWriter == [who |-> "none", pc |-> "idle", company_id |-> <<>>,
             old |-> AbsentFile, new |-> AbsentFile]

FsInit ==
    /\ tmp_files = [stem \in FileStems |-> AbsentFile]
    /\ knowledge_csv = [c \in AllCompanyIds |-> AbsentCsv]
    /\ vectors_csv = [c \in AllCompanyIds |-> AbsentCsv]
    /\ analysis_csv = [c \in AllCompanyIds |-> AbsentCsv]
    /\ writer = NoWriter
    /\ processed = NoProcess

PipelineContents == {<<"a">>, <<" ", "a">>, <<" ">>}

PipelineNext ==
    \E x \in PipelineContents, c \in CompanyIds, embed \in EmbedOutcomes,
       fail \in FailPoints :
       ProcessContent(x, c, embed, fail)

(***************************************************************************)
(* The writers of <stem>_knowledge.json, one file operation per step, and  *)
(* a crash of the process between any two steps.                           *)
(***************************************************************************)
MaxWrites == 2           \* number of writes started in one behaviour

KnowledgeLimit == 50     \* plan 'free'

\* ClientManager._create_json_bridge_for_client: every active row, no header
client_bridge_entries(csv, client_id) == ActiveEntries(csv.rows, client_id)

\* rows get_client_knowledge lists: the active ones
get_client_knowledge(csv) == SelectSeq(csv.rows, LAMBDA row : row.is_active)

CompleteFile(company_id, entries) ==
    [state |-> "complete", company_id |-> company_id, knowledge |-> entries]

\* KnowledgeBase.add_knowledge up to the call of _save_company_knowledge
KBSaveStart(company_id, content) ==
    /\ writer.who = "none"
    /\ clock <= MaxWrites
    /\ LET r == add_knowledge(knowledge_cache, files, company_id, content, {}, TRUE)
       IN /\ knowledge_cache' = r.cache
          /\ writer' = [who |-> "kb", pc |-> "open", company_id |-> company_id,
                        old |-> files[_get_company_file_path(company_id)],
                        new |-> CompleteFile(company_id, r.cache[company_id])]
    /\ clock' = clock + 1
    /\ next_id' = next_id + 1
    /\ UNCHANGED <<files, last, returned, tmp_files, knowledge_csv, vectors_csv,
                   analysis_csv, processed>>
    /\ UNCHANGED <<chatvars, textvars, appvars>>

\* open(temp_path, 'w'): the temporary file exists and is empty
SaveOpenTmp ==
    /\ writer.who = "kb" /\ writer.pc = "open"
    /\ tmp_files' = [tmp_files EXCEPT
                       ![_get_company_file_path(writer.company_id)] = PartialFile]
    /\ writer' = [writer EXCEPT !.pc = "dump"]
    /\ UNCHANGED <<kbvars, knowledge_csv, vectors_csv, analysis_csv, processed>>
    /\ UNCHANGED <<chatvars, textvars, appvars>>

\* json.dump and close: the temporary file holds the whole list
SaveDump ==
    /\ writer.who = "kb" /\ writer.pc = "dump"
    /\ tmp_files' = [tmp_files EXCEPT
                       ![_get_company_file_path(writer.company_id)] = writer.new]
    /\ writer' = [writer EXCEPT !.pc = "rename"]
    /\ UNCHANGED <<kbvars, knowledge_csv, vectors_csv, analysis_csv, processed>>
    /\ UNCHANGED <<chatvars, textvars, appvars>>

\* os.rename(temp_path, file_path)
SaveRename ==
    /\ writer.who = "kb" /\ writer.pc = "rename"
    /\ LET path == _get_company_file_path(writer.company_id)
       IN /\ files' = [files EXCEPT ![path] = tmp_files[path]]
          /\ tmp_files' = [tmp_files EXCEPT ![path] = AbsentFile]
    /\ writer' = NoWriter
    /\ UNCHANGED <<knowledge_cache, clock, next_id, last, returned,
                   knowledge_csv, vectors_csv, analysis_csv, processed>>
    /\ UNCHANGED <<chatvars, textvars, appvars>>

\* save_processed_knowledge up to the open of the JSON file in
\* create_json_bridge: the CSV rows are appended and read back
BridgeStart(company_id, content, embed) ==
    /\ writer.who = "none"
    /\ clock <= MaxWrites
    /\ strip(content) # <<>>
    /\ LET knowledge ==
              [id |-> next_id, company_id |-> company_id,
               original_content |-> content,
               chunks |-> vectorize_chunks(chunk_text(content), embed),
               created_at |-> clock]
           k1 == _save_knowledge_entry(knowledge, knowledge_csv[company_id])
       IN /\ knowledge_csv' = [knowledge_csv EXCEPT ![company_id] = k1]
          /\ vectors_csv' = [vectors_csv EXCEPT ![company_id] =
                               _save_vector_data(knowledge, @)]
          /\ analysis_csv' = [analysis_csv EXCEPT ![company_id] =
                                _save_analysis_data(knowledge, @)]
          /\ writer' = [who |-> "pipeline", pc |-> "open",
                        company_id |-> company_id,
                        old |-> files[_sanitize_filename(company_id)],
                        new |-> CompleteFile(company_id,
                                             bridge_entries(k1, company_id))]
    /\ clock' = clock + 1
    /\ next_id' = next_id + 1
    /\ UNCHANGED <<knowledge_cache, files, last, returned, tmp_files, processed>>
    /\ UNCHANGED <<chatvars, textvars, appvars>>

\* open(json_file, 'w') in create_json_bridge: the file itself is truncated
BridgeOpen ==
    /\ writer.who = "pipeline" /\ writer.pc = "open"
    /\ files' = [files EXCEPT
                   ![_sanitize_filename(writer.company_id)] = PartialFile]
    /\ writer' = [writer EXCEPT !.pc = "dump"]
    /\ UNCHANGED <<knowledge_cache, clock, next_id, last, returned, fsvars_csv>>
    /\ UNCHANGED <<chatvars, textvars, appvars>>

\* json.dump and close in create_json_bridge
BridgeDump ==
    /\ writer.who = "pipeline" /\ writer.pc = "dump"
    /\ files' = [files EXCEPT
                   ![_sanitize_filename(writer.company_id)] = writer.new]
    /\ writer' = NoWriter
    /\ UNCHANGED <<knowledge_cache, clock, next_id, last, returned, fsvars_csv>>
    /\ UNCHANGED <<chatvars, textvars, appvars>>

\* ClientManager.add_client_knowledge up to the open of the JSON file in
\* _create_json_bridge_for_client
ClientBridgeStart(client_id, content) ==
    /\ writer.who = "none"
    /\ clock <= MaxWrites
    /\ Len(get_client_knowledge(knowledge_csv[client_id])) < KnowledgeLimit
    /\ LET row == [kind |-> "data", id |-> next_id, content |-> content,
                   created_at |-> clock, is_active |-> TRUE,
                   enhanced |-> FALSE, vector_model |-> "none"]
           k1 == [exists |-> TRUE,
                  rows |-> Append(knowledge_csv[client_id].rows, row)]
       IN /\ knowledge_csv' = [knowledge_csv EXCEPT ![client_id] = k1]
          /\ writer' = [who |-> "client", pc |-> "open",
                        company_id |-> client_id,
                        old |-> files[_sanitize_filename(client_id)],
                        new |-> CompleteFile(client_id,
                                             client_bridge_entries(k1, client_id))]
    /\ clock' = clock + 1
    /\ next_id' = next_id + 1
    /\ UNCHANGED <<knowledge_cache, files, last, returned, tmp_files,
                   vectors_csv, analysis_csv, processed>>
    /\ UNCHANGED <<chatvars, textvars, appvars>>

\* open(json_file, 'w') in _create_json_bridge_for_client
ClientBridgeOpen ==
    /\ writer.who = "client" /\ writer.pc = "open"
    /\ files' = [files EXCEPT
                   ![_sanitize_filename(writer.company_id)] = PartialFile]
    /\ writer' = [writer EXCEPT !.pc = "dump"]
    /\ UNCHANGED <<knowledge_cache, clock, next_id, last, returned, fsvars_csv>>
    /\ UNCHANGED <<chatvars, textvars, appvars>>

\* json.dump and close in _create_json_bridge_for_client
ClientBridgeDump ==
    /\ writer.who = "client" /\ writer.pc = "dump"
    /\ files' = [files EXCEPT
                   ![_sanitize_filename(writer.company_id)] = writer.new]
    /\ writer' = NoWriter
    /\ UNCHANGED <<knowledge_cache, clock, next_id, last, returned, fsvars_csv>>
    /\ UNCHANGED <<chatvars, textvars, appvars>>

\* the process dies while a writer is at work and is started again
Crash ==
    /\ writer.who # "none"
    /\ writer' = NoWriter
    /\ knowledge_cache' = _load_all_knowledge(files)
    /\ UNCHANGED <<files, clock, next_id, last, returned, fsvars_csv>>
    /\ UNCHANGED <<chatvars, textvars, appvars>>

CrashNext ==
    \/ \E c \in CompanyIds, x \in PipelineContents : KBSaveStart(c, x)
    \/ SaveOpenTmp
    \/ SaveDump
    \/ SaveRename
    \/ \E c \in CompanyIds, x \in PipelineContents, embed \in EmbedOutcomes :
          BridgeStart(c, x, embed)
    \/ BridgeOpen
    \/ BridgeDump
    \/ \E c \in CompanyIds, x \in PipelineContents : ClientBridgeStart(c, x)
    \/ ClientBridgeOpen
    \/ ClientBridgeDump
    \/ Crash

(***************************************************************************)
(* ClientManager (admin_dashboard/client_management.py)                    *)
(***************************************************************************)
\* the header register_client writes to a new knowledge.csv: six columns
ClientHeader ==
    [kind |-> "header", id |-> 0, content |-> <<>>, created_at |-> 0,
     is_active |-> FALSE, enhanced |-> FALSE, vector_model |-> "none"]

\* generate_api_key: a fresh secret for each client
generate_api_key(client_id) == <<"k">> \o client_id

\* get_client_by_id: the first row of clients.csv with the id, 0 if none
get_client_by_id(rows, client_id) ==
    IF \E i \in 1..Len(rows) : rows[i].client_id = client_id
    THEN Least({i \in 1..Len(rows) : rows[i].client_id = client_id}) ELSE 0

\* get_client_by_api_key: the first row of clients.csv with the key, 0 if none
get_client_by_api_key(rows, api_key) ==
    IF \E i \in 1..Len(rows) : rows[i].api_key = api_key
    THEN Least({i \in 1..Len(rows) : rows[i].api_key = api_key}) ELSE 0

\* ClientManager.register_client: a row of clients.csv and a knowledge.csv
\* that holds the header only
RegisterClient(client_id) ==
    /\ clock < MaxClock
    /\ get_client_by_id(clients, client_id) = 0
    /\ clients' = Append(clients, [client_id |-> client_id,
                                   api_key |-> generate_api_key(client_id),
                                   is_active |-> TRUE])
    /\ knowledge_csv' = [knowledge_csv EXCEPT
                           ![client_id] = [exists |-> TRUE, rows |-> <<ClientHeader>>]]
    /\ last' = [Call("register_client", client_id, <<>>) EXCEPT !.ret_ok = TRUE]
    /\ clock' = clock + 1
    /\ UNCHANGED <<knowledge_cache, files, next_id, returned, tmp_files,
                   vectors_csv, analysis_csv, writer, processed>>
    /\ UNCHANGED <<chatvars, textvars, threads, crawl>>

\* ClientManager._create_json_bridge_for_client as one call; its failures
\* are caught and logged
_create_json_bridge_for_client(fs, csv, client_id, fail) ==
    LET path == _sanitize_filename(client_id)
    IN IF ~csv.exists \/ fail = "bridge_open" THEN fs
       ELSE IF fail = "bridge_dump" THEN [fs EXCEPT ![path] = PartialFile]
       ELSE [fs EXCEPT ![path] =
                CompleteFile(client_id, client_bridge_entries(csv, client_id))]

\* ClientManager.add_client_knowledge: result, knowledge.csv and JSON files
add_client_knowledge(rows, csv, fs, client_id, content, fail) ==
    IF get_client_by_id(rows, client_id) = 0
       \/ Len(get_client_knowledge(csv)) >= KnowledgeLimit
       \/ fail = "knowledge_csv"
    THEN [success |-> FALSE, knowledge_id |-> 0, csv |-> csv, files |-> fs]
    ELSE LET row == [kind |-> "data", id |-> next_id, content |-> content,
                     created_at |-> clock, is_active |-> TRUE,
                     enhanced |-> FALSE, vector_model |-> "none"]
             k1 == [exists |-> TRUE, rows |-> Append(csv.rows, row)]
         IN [success |-> TRUE, knowledge_id |-> next_id, csv |-> k1,
             files |-> _create_json_bridge_for_client(fs, k1, client_id, fail)]

AddClientKnowledge(client_id, content, fail) ==
    /\ clock < MaxClock
    /\ LET r == add_client_knowledge(clients, knowledge_csv[client_id], files,
                                     client_id, content, fail)
       IN /\ knowledge_csv' = [knowledge_csv EXCEPT ![client_id] = r.csv]
          /\ files' = r.files
          /\ last' = [Call("add_client_knowledge", client_id, content) EXCEPT
                        !.ret_ok = r.success, !.ret_id = r.knowledge_id,
                        !.write_failed = fail # "none",
                        !.len_before =
                            Len(get_client_knowledge(knowledge_csv[client_id]))]
    /\ clock' = clock + 1
    /\ next_id' = next_id + 1
    /\ UNCHANGED <<knowledge_cache, returned, tmp_files, vectors_csv,
                   analysis_csv, writer, processed>>
    /\ UNCHANGED <<chatvars, textvars, appvars>>

\* ClientManager.delete_client_knowledge: the row keeps its first five
\* columns and gets False as the sixth; the JSON file is not written
delete_client_knowledge(rows, csv, client_id, knowledge_id) ==
    IF get_client_by_id(rows, client_id) = 0 \/ ~csv.exists
       \/ ~\E i \in 1..Len(csv.rows) : csv.rows[i].id = knowledge_id
    THEN [success |-> FALSE, csv |-> csv]
    ELSE [success |-> TRUE,
          csv |-> [exists |-> TRUE,
                   rows |-> [i \in 1..Len(csv.rows) |->
                               IF csv.rows[i].id = knowledge_id
                               THEN [csv.rows[i] EXCEPT !.is_active = FALSE,
                                                        !.enhanced = FALSE,
                                                        !.vector_model = "none"]
                               ELSE csv.rows[i]]]]

DeleteClientKnowledge(client_id, knowledge_id) ==
    /\ clock < MaxClock
    /\ LET r == delete_client_knowledge(clients, knowledge_csv[client_id],
                                        client_id, knowledge_id)
       IN /\ knowledge_csv' = [knowledge_csv EXCEPT ![client_id] = r.csv]
          /\ last' = [Call("delete_client_knowledge", client_id, <<>>) EXCEPT
                        !.ret_ok = r.success, !.ret_id = knowledge_id,
                        !.len_before =
                            Len(get_client_knowledge(knowledge_csv[client_id]))]
    /\ clock' = clock + 1
    /\ UNCHANGED <<knowledge_cache, files, next_id, returned, tmp_files,
                   vectors_csv, analysis_csv, writer, processed>>
    /\ UNCHANGED <<chatvars, textvars, appvars>>

\* ClientManager.clear_client_knowledge: deleted_count counts every row of
\* six columns that is active and every other row of at least five columns;
\* the file is left empty and the JSON file is not written
clear_client_knowledge(rows, csv, client_id) ==
    IF get_client_by_id(rows, client_id) = 0
    THEN [success |-> FALSE, deleted_count |-> 0, csv |-> csv]
    ELSE IF ~csv.exists
    THEN [success |-> TRUE, deleted_count |-> 0, csv |-> csv]
    ELSE [success |-> TRUE,
          deleted_count |->
              Len(SelectSeq(csv.rows, LAMBDA row : row.is_active))
              + Len(SelectSeq(csv.rows, LAMBDA row : ~row.is_active)),
          csv |-> [exists |-> TRUE, rows |-> <<>>]]

ClearClientKnowledge(client_id) ==
    /\ clock < MaxClock
    /\ LET r == clear_client_knowledge(clients, knowledge_csv[client_id], client_id)
       IN /\ knowledge_csv' = [knowledge_csv EXCEPT ![client_id] = r.csv]
          /\ last' = [Call("clear_client_knowledge", client_id, <<>>) EXCEPT
                        !.ret_ok = r.success, !.ret_count = r.deleted_count,
                        !.len_before =
                            Len(get_client_knowledge(knowledge_csv[client_id]))]
    /\ clock' = clock + 1
    /\ UNCHANGED <<knowledge_cache, files, next_id, returned, tmp_files,
                   vectors_csv, analysis_csv, writer, processed>>
    /\ UNCHANGED <<chatvars, textvars, appvars>>

\* ClientManager.get_client_knowledge
GetClientKnowledge(client_id) ==
    /\ clock < MaxClock
    /\ returned' = get_client_knowledge(knowledge_csv[client_id])
    /\ last' = Call("get_client_knowledge", client_id, <<>>)
    /\ clock' = clock + 1
    /\ UNCHANGED <<knowledge_cache, files, next_id>>
    /\ UNCHANGED nonkb

\* the faults of one add_client_knowledge call
ClientFailPoints == {"none", "knowledge_csv", "bridge_open", "bridge_dump"}

ClientNext ==
    \/ \E c \in ClientIds : RegisterClient(c)
    \/ \E c \in ClientIds, x \in PipelineContents, fail \in ClientFailPoints :
          AddClientKnowledge(c, x, fail)
    \/ \E c \in ClientIds, id \in EntryIds : DeleteClientKnowledge(c, id)
    \/ \E c \in ClientIds : ClearClientKnowledge(c)
    \/ \E c \in ClientIds : GetClientKnowledge(c)

(***************************************************************************)
(* The knowledge routes of the enhanced API (admin_dashboard/enhanced_app) *)
(***************************************************************************)
\* the X-API-Key header of a request: none, the key of a client, or a key
\* no client has
ApiKeys == {<<>>, <<"k", "z">>} \cup {generate_api_key(c) : c \in ClientIds}

\* the company_id of the JSON body of a request, <<>> for none
BodyCompanyIds == {<<>>} \cup ClientIds

\* authenticate_api_request: the client of the API key, else an object
\* made from the company_id of the body, else None
authenticate_api_request(rows, api_key, body_company_id) ==
    LET i == IF api_key = <<>> THEN 0 ELSE get_client_by_api_key(rows, api_key)
    IN IF i > 0 /\ rows[i].is_active
       THEN [is_none |-> FALSE, client_id |-> rows[i].client_id]
       ELSE IF body_company_id # <<>>
       THEN [is_none |-> FALSE, client_id |-> body_company_id]
       ELSE [is_none |-> TRUE, client_id |-> <<>>]

\* if client and hasattr(client, 'client_id') and client.client_id != company_id
AccessDenied(client, company_id) ==
    ~client.is_none /\ client.client_id # company_id

\* GET /api/knowledge/<company_id>
ApiGetKnowledge(api_key, body_company_id, company_id) ==
    LET client == authenticate_api_request(clients, api_key, body_company_id)
    IN /\ clock < MaxClock
       /\ clock' = clock + 1
       /\ IF AccessDenied(client, company_id)
          THEN /\ last' = Call("api_get_knowledge", company_id, <<>>)
               /\ returned' = <<>>
               /\ UNCHANGED knowledge_cache
          ELSE /\ last' = [Call("api_get_knowledge", company_id, <<>>) EXCEPT
                             !.ret_ok = TRUE]
               /\ returned' = get_company_knowledge(knowledge_cache, files,
                                                    company_id)
               /\ knowledge_cache' =
                     EnsureLoaded(knowledge_cache, files, company_id)
       /\ UNCHANGED <<files, next_id>>
       /\ UNCHANGED nonkb

\* DELETE /api/knowledge/<company_id>
ApiClearKnowledge(api_key, body_company_id, company_id, ok) ==
    LET client == authenticate_api_request(clients, api_key, body_company_id)
        r == clear_company_knowledge(knowledge_cache, files, company_id, ok)
    IN /\ clock < MaxClock
       /\ clock' = clock + 1
       /\ IF AccessDenied(client, company_id)
          THEN /\ last' = Call("api_clear_knowledge", company_id, <<>>)
               /\ UNCHANGED <<knowledge_cache, files>>
          ELSE /\ last' = [Call("api_clear_knowledge", company_id, <<>>) EXCEPT
                             !.ret_ok = TRUE, !.ret_count = r.ret_count,
                             !.write_failed = ~ok,
                             !.len_before =
                                 Len(CacheGet(knowledge_cache, company_id))]
               /\ knowledge_cache' = r.cache
               /\ files' = r.files
       /\ UNCHANGED <<next_id, returned>>
       /\ UNCHANGED nonkb

ApiNext ==
    \/ \E c \in ClientIds : RegisterClient(c)
    \/ \E c \in ClientIds, x \in {<<"a">>} : AddKnowledge(c, x, {}, TRUE)
    \/ \E k \in ApiKeys, b \in BodyCompanyIds, c \in ClientIds :
          ApiGetKnowledge(k, b, c)
    \/ \E k \in ApiKeys, b \in BodyCompanyIds, c \in ClientIds, ok \in BOOLEAN :
          ApiClearKnowledge(k, b, c, ok)

(***************************************************************************)
(* Retrieval and response (chatbot/core/llm_integration.py,                *)
(* chatbot/core/chatbot_engine.py)                                         *)
(***************************************************************************)
max_results == 5
clarification_threshold == 3      \* 0.3, in tenths
KeywordThreshold == 1             \* 0.1, in tenths
max_age == 86400                  \* 24 * 60 * 60 seconds

\* a score num / sqrt(den2); cosine similarities are kept exact this way
Score(num, den2) == [num |-> num, den2 |-> den2]

ZeroScore == Score(0, 1)

\* a threshold given in tenths
Tenths(t) == Score(t, 100)

\* a >= b on scores
ScoreGE(a, b) ==
    IF a.num >= 0
    THEN b.num <= 0 \/ a.num * a.num * b.den2 >= b.num * b.num * a.den2
    ELSE b.num < 0 /\ a.num * a.num * b.den2 <= b.num * b.num * a.den2

RECURSIVE Dot(_, _)
Dot(v, w) == IF v = <<>> THEN 0 ELSE Head(v) * Head(w) + Dot(Tail(v), Tail(w))

\* LLMIntegration._cosine_similarity; np.dot raises on a length mismatch
\* and the handler returns 0.0
_cosine_similarity(vec1, vec2) ==
    IF Len(vec1) # Len(vec2) THEN ZeroScore
    ELSE IF Dot(vec1, vec1) = 0 \/ Dot(vec2, vec2) = 0 THEN ZeroScore
    ELSE Score(Dot(vec1, vec2), Dot(vec1, vec1) * Dot(vec2, vec2))

\* matches.sort(key=lambda x: x.similarity_score, reverse=True): stable
RECURSIVE SortBySimilarity(_)
SortBySimilarity(s) ==
    IF s = <<>> THEN <<>>
    ELSE LET i == CHOOSE i \in 1..Len(s) :
                    /\ \A j \in 1..Len(s) :
                          ScoreGE(s[i].similarity_score, s[j].similarity_score)
                    /\ \A j \in 1..(i - 1) :
                          ~ScoreGE(s[j].similarity_score, s[i].similarity_score)
         IN <<s[i]>> \o SortBySimilarity(RemoveAt(s, i))

\* matches[:n]
Take(s, n) == SubSeq(s, 1, IF Len(s) < n THEN Len(s) ELSE n)

\* the data rows of a CSV file (pandas takes the first row as the columns)
DataRows(csv) == SelectSeq(csv.rows, LAMBDA row : row.kind = "data")

\* a plausible slip: the matches are cut to max_results but never filtered
\* by similarity_threshold
search_vectors_unfiltered(vcsv, query_embedding, company_id, threshold, fault) ==
    IF ~vcsv[company_id].exists \/ fault \in {"vectors", "both"} THEN <<>>
    ELSE LET rows == DataRows(vcsv[company_id])
             all == [i \in 1..Len(rows) |->
                       [knowledge_id |-> rows[i].knowledge_id,
                        chunk_id |-> <<rows[i].knowledge_id, rows[i].chunk_index>>,
                        content |-> rows[i].chunk_content,
                        similarity_score |->
                            _cosine_similarity(query_embedding, rows[i].vector)]]
         IN Take(SortBySimilarity(all), max_results)

\* LLMIntegration.search_vectors; fault = "vectors" is an exception inside
\* the search (unreadable file, embedding failure), which returns []
search_vectors(vcsv, query_embedding, company_id, threshold, fault) ==
    IF ~vcsv[company_id].exists \/ fault \in {"vectors", "both"} THEN <<>>
    ELSE LET rows == DataRows(vcsv[company_id])
             all == [i \in 1..Len(rows) |->
                       [knowledge_id |-> rows[i].knowledge_id,
                        chunk_id |-> <<rows[i].knowledge_id, rows[i].chunk_index>>,
                        content |-> rows[i].chunk_content,
                        similarity_score |->
                            _cosine_similarity(query_embedding, rows[i].vector)]]
             matches == SelectSeq(all, LAMBDA m :
                            ScoreGE(m.similarity_score, Tenths(threshold)))
         IN Take(SortBySimilarity(matches), max_results)

\* str.lower()
lower(s) ==
    [i \in 1..Len(s) |->
        CASE s[i] = "A" -> "a" [] s[i] = "D" -> "d" [] s[i] = "N" -> "n"
          [] OTHER -> s[i]]

\* re.sub(r'[^\w\s]', ' ', ...)
clean(s) == [i \in 1..Len(s) |-> IF s[i] = "?" THEN " " ELSE s[i]]

\* str.split(): the words between runs of whitespace
RECURSIVE split(_)
split(s) ==
    IF s = <<>> THEN <<>>
    ELSE IF Head(s) = " " THEN split(Tail(s))
    ELSE LET n == IF \E i \in 1..Len(s) : s[i] = " "
                  THEN (CHOOSE i \in 1..Len(s) :
                           s[i] = " " /\ \A j \in 1..(i - 1) : s[j] # " ") - 1
                  ELSE Len(s)
         IN <<SubSeq(s, 1, n)>> \o split(SubSeq(s, n + 1, Len(s)))

\* the stop words that can be spelled with the letters of the model
stop_words == {<<"a">>, <<"a", "n">>, <<"a", "n", "d">>}

\* LLMIntegration._extract_keywords
_extract_keywords(message) ==
    SelectSeq(split(clean(lower(message))),
              LAMBDA word : Len(word) > 2 /\ word \notin stop_words)

RECURSIVE KeywordScore(_, _)
\* for keyword in keywords: score += content_lower.count(keyword) * 2
KeywordScore(keywords, content_lower) ==
    IF keywords = <<>> THEN 0
    ELSE (IF IsSubstring(Head(keywords), content_lower)
          THEN CountSub(Head(keywords), content_lower) * 2 ELSE 0)
         + KeywordScore(Tail(keywords), content_lower)

\* the keyword-tier score without the cap
traditional_score_uncapped(query, content) ==
    KeywordScore(_extract_keywords(query), lower(content))
    + (IF IsSubstring(lower(query), lower(content)) THEN 10 ELSE 0)

\* the keyword-tier score of one entry, in twentieths, capped at 20
traditional_score(query, content) ==
    LET score == KeywordScore(_extract_keywords(query), lower(content))
                 + (IF IsSubstring(lower(query), lower(content)) THEN 10 ELSE 0)
    IN IF score > 20 THEN 20 ELSE score

\* LLMIntegration._fallback_to_traditional_search; fault = "kb" is an
\* exception while reading the knowledge base, which returns []
_fallback_to_traditional_search(cache, fs, query, company_id, fault) ==
    IF fault \in {"kb", "both"} THEN <<>>
    ELSE LET all_knowledge == get_company_knowledge(cache, fs, company_id)
             all == [i \in 1..Len(all_knowledge) |->
                       [knowledge_id |-> all_knowledge[i].id,
                        chunk_id |-> <<all_knowledge[i].id>>,
                        content |-> all_knowledge[i].content,
                        similarity_score |->
                            Score(traditional_score(query, all_knowledge[i].content),
                                  400)]]
             matches == SelectSeq(all, LAMBDA m :
                            ScoreGE(m.similarity_score, Tenths(KeywordThreshold)))
         IN Take(SortBySimilarity(matches), max_results)

\* _fallback_to_traditional_search over a knowledge base that holds the
\* given contents for the company
FallbackSearch(query, company_id, contents) ==
    /\ pure.op = "none"
    /\ LET knowledge == [i \in 1..Len(contents) |->
                           [id |-> i, company_id |-> company_id,
                            content |-> contents[i], source |-> Source,
                            metadata |-> {}, created_at |-> i, updated_at |-> i]]
           cache == CachePut(<<>>, company_id, knowledge)
       IN pure' = [op |-> "fallback_search", query |-> query,
                   knowledge |-> knowledge,
                   matches |-> _fallback_to_traditional_search(
                                   cache, files, query, company_id, "none")]
    /\ UNCHANGED <<kbvars, fsvars, chatvars, appvars>>

\* max(match.similarity_score for match in matches), 0.0 for no match
MaxSimilarity(matches) ==
    IF matches = <<>> THEN ZeroScore
    ELSE LET i == CHOOSE i \in 1..Len(matches) :
                    \A j \in 1..Len(matches) :
                        ScoreGE(matches[i].similarity_score,
                                matches[j].similarity_score)
         IN matches[i].similarity_score

\* the test of search_vectors_with_fallback: no vector match, or none good
fallback_taken(vector_matches, threshold) ==
    \/ vector_matches = <<>>
    \/ ~ScoreGE(MaxSimilarity(vector_matches), Tenths(threshold))

\* a plausible slip: the vector matches are returned whatever they are
search_vectors_never_falling_back(vcsv, cache, fs, query, q, company_id, threshold, fault) ==
    search_vectors(vcsv, q, company_id, threshold, fault)

\* LLMIntegration.search_vectors_with_fallback
search_vectors_with_fallback(vcsv, cache, fs, query, q, company_id, threshold, fault) ==
    LET vector_matches == search_vectors(vcsv, q, company_id, threshold, fault)
    IN IF fallback_taken(vector_matches, threshold)
       THEN _fallback_to_traditional_search(cache, fs, query, company_id, fault)
       ELSE vector_matches

ChunkIds(matches) == [i \in 1..Len(matches) |-> matches[i].chunk_id]

\* a plausible slip: a clarification always reports confidence 0.0
_generate_clarification_response_zero(query, vector_matches) ==
    [response |-> <<"clarification">>,
     confidence |-> ZeroScore,
     sources |-> ChunkIds(Take(vector_matches, 2)),
     needs_clarification |-> TRUE]

\* LLMIntegration._generate_clarification_response
_generate_clarification_response(query, vector_matches) ==
    [response |-> <<"clarification">>,
     confidence |-> MaxSimilarity(vector_matches),
     sources |-> ChunkIds(Take(vector_matches, 2)),
     needs_clarification |-> TRUE]

\* LLMIntegration._call_llm: the text of the client, or of _fallback_response
\* when the client raises
_call_llm(fault) == IF fault = "llm" THEN <<"fallback">> ELSE <<"answer">>

\* a plausible slip: the test for an empty or weak match list is missing
generate_response_always_answering(query, vector_matches, fault) ==
    [response |-> _call_llm(fault),
     confidence |-> MaxSimilarity(vector_matches),
     sources |-> ChunkIds(Take(vector_matches, 3)),
     needs_clarification |-> FALSE]

\* LLMIntegration.generate_response
generate_response(query, vector_matches, fault) ==
    IF vector_matches = <<>>
       \/ ~ScoreGE(MaxSimilarity(vector_matches), Tenths(clarification_threshold))
    THEN _generate_clarification_response(query, vector_matches)
    ELSE [response |-> _call_llm(fault),
          confidence |-> MaxSimilarity(vector_matches),
          sources |-> ChunkIds(Take(vector_matches, 3)),
          needs_clarification |-> FALSE]

\* f"{company_id}:{session_id}"
conversation_key(company_id, session_id) == company_id \o <<":">> \o session_id

\* ConversationContext.add_message
add_message(conversation, role, content, t) ==
    [conversation EXCEPT
        !.messages = Append(@, [role |-> role, content |-> content,
                                timestamp |-> t]),
        !.last_activity = t]

\* ChatbotEngine._cleanup_old_conversations
_cleanup_old_conversations(convs, t) ==
    [key \in {k \in DOMAIN convs : ~(t - convs[k].last_activity > max_age)} |->
        convs[key]]

NoResponse ==
    [called |-> FALSE, seq |-> 0, expired |-> FALSE,
     query |-> <<>>, company_id |-> <<>>, session_id |-> <<>>,
     query_embedding |-> <<>>, fault |-> "none", tier |-> "none",
     matches |-> <<>>, history |-> <<>>,
     message |-> <<>>, sources |-> <<>>, confidence |-> ZeroScore,
     needs_clarification |-> FALSE, raised |-> FALSE]

\* a plausible slip: the handler of get_response logs and raises again
get_response_reraising(session_id, company_id) ==
    [message |-> <<"apology">>, sources |-> <<>>, confidence |-> ZeroScore,
     needs_clarification |-> TRUE, raised |-> TRUE]

\* the except branch of get_response: the fixed apology
get_response_except(session_id, company_id) ==
    [message |-> <<"apology">>, sources |-> <<>>, confidence |-> ZeroScore,
     needs_clarification |-> TRUE, raised |-> FALSE]

\* ChatbotEngine.get_response; dt is the time passed since the last call.
\* Exceptions of the tiers and of the LLM client are caught where they arise;
\* fault = "engine" is an exception in the body itself, raised by the sweep of
\* _cleanup_old_conversations after the user message was added, and caught
\* by the handler around the whole body.
GetResponse(message, company_id, session_id, query_embedding, fault, dt) ==
    LET t == now + dt
        key == conversation_key(company_id, session_id)
        convs0 == IF key \in DOMAIN conversations THEN conversations
                  ELSE CachePut(conversations, key,
                          [session_id |-> session_id, company_id |-> company_id,
                           messages |-> <<>>, created_at |-> t,
                           last_activity |-> t])
        conversation == add_message(convs0[key], "user", message, t)
        convs1 == _cleanup_old_conversations(
                      CachePut(convs0, key, conversation), t)
        vector_matches ==
            search_vectors_with_fallback(vectors_csv, knowledge_cache, files,
                message, query_embedding, company_id, similarity_threshold, fault)
        tier == IF fallback_taken(
                      search_vectors(vectors_csv, query_embedding, company_id,
                                     similarity_threshold, fault),
                      similarity_threshold)
                THEN "keyword" ELSE "vector"
        llm_response == generate_response(message, vector_matches, fault)
        conversation2 == add_message(conversation, "assistant",
                                     llm_response.response, t)
        call == [called |-> TRUE, seq |-> response.seq + 1,
                 expired |-> /\ key \in DOMAIN conversations
                             /\ t - conversations[key].last_activity > max_age,
                 query |-> message, company_id |-> company_id,
                 session_id |-> session_id,
                 query_embedding |-> query_embedding, fault |-> fault]
    IN /\ now' = t
       /\ IF fault = "engine"
          THEN /\ conversations' = CachePut(convs0, key, conversation)
               /\ response' = call @@ [tier |-> "none", matches |-> <<>>,
                                       history |-> <<>>]
                                   @@ get_response_except(session_id, company_id)
               /\ UNCHANGED knowledge_cache
          ELSE /\ conversations' = IF key \in DOMAIN convs1
                                   THEN CachePut(convs1, key, conversation2)
                                   ELSE convs1
               /\ knowledge_cache' =
                     IF fault \in {"kb", "both"} \/ tier = "vector"
                     THEN knowledge_cache
                     ELSE EnsureLoaded(knowledge_cache, files, company_id)
               /\ response' = call @@
                     [tier |-> tier, matches |-> vector_matches,
                      history |-> conversation.messages,
                      message |-> llm_response.response,
                      sources |-> llm_response.sources,
                      confidence |-> llm_response.confidence,
                      needs_clarification |-> llm_response.needs_clarification,
                      raised |-> FALSE]
       /\ UNCHANGED <<files, clock, next_id, last, returned, fsvars,
                      similarity_threshold, textvars, appvars>>

\* ChatbotEngine.get_conversation_history
get_conversation_history(convs, company_id, session_id) ==
    LET key == conversation_key(company_id, session_id)
    IN IF key \in DOMAIN convs THEN convs[key].messages ELSE <<>>

GetConversationHistory(company_id, session_id) ==
    /\ pure' = [op |-> "get_conversation_history", company_id |-> company_id,
                session_id |-> session_id,
                result |-> get_conversation_history(conversations, company_id,
                                                    session_id)]
    /\ UNCHANGED <<kbvars, fsvars, chatvars, appvars>>

\* ChatbotEngine.clear_conversation
ClearConversation(company_id, session_id) ==
    LET key == conversation_key(company_id, session_id)
    IN /\ key \in DOMAIN conversations
       /\ conversations' = [k \in DOMAIN conversations \ {key} |-> conversations[k]]
       /\ pure' = [op |-> "clear_conversation", company_id |-> company_id,
                   session_id |-> session_id, result |-> TRUE]
       /\ UNCHANGED <<kbvars, fsvars, now, similarity_threshold, response, appvars>>

\* clear_conversation for a session that does not exist
ClearNoConversation(company_id, session_id) ==
    /\ conversation_key(company_id, session_id) \notin DOMAIN conversations
    /\ pure' = [op |-> "clear_conversation", company_id |-> company_id,
                session_id |-> session_id, result |-> FALSE]
    /\ UNCHANGED <<kbvars, fsvars, chatvars, appvars>>

(***************************************************************************)
(* ChatbotEngine.get_response called from several server threads with no   *)
(* lock, one statement group per step.                                     *)
(***************************************************************************)
Threads == {1, 2}

\* the sessions a thread serves: concurrent calls never share a session
ThreadSessions(t) == IF t = 1 THEN {<<"s">>, <<"u">>} ELSE {<<"t">>}

MaxRequests == 3     \* get_response calls in one behaviour

IdleThread ==
    [pc |-> "idle", company_id |-> <<>>, session_id |-> <<>>, message |-> <<>>,
     history |-> <<>>, used |-> 0, keys_to_remove |-> {}, result |-> "none"]

\* lines 68-79: the conversation is looked up or created and the user
\* message is added to it
ThreadEnter(t, message, company_id, session_id) ==
    LET key == conversation_key(company_id, session_id)
        convs0 == IF key \in DOMAIN conversations THEN conversations
                  ELSE CachePut(conversations, key,
                          [session_id |-> session_id, company_id |-> company_id,
                           messages |-> <<>>, created_at |-> now,
                           last_activity |-> now])
    IN /\ threads[t].pc \in {"idle", "done"}
       /\ response.seq < MaxRequests
       /\ response' = [response EXCEPT !.seq = @ + 1]
       /\ conversations' = CachePut(convs0, key,
                               add_message(convs0[key], "user", message, now))
       /\ threads' = [threads EXCEPT ![t] =
                         [IdleThread EXCEPT !.pc = "cleanup",
                                            !.company_id = company_id,
                                            !.session_id = session_id,
                                            !.message = message,
                                            !.history = convs0[key].messages]]
       /\ UNCHANGED <<kbvars, fsvars, now, similarity_threshold, textvars, clients, crawl>>

\* for key, conversation in self.conversations.items(): the iterator is
\* created and remembers the size of the dict
ThreadCleanupIter(t) ==
    /\ threads[t].pc = "cleanup"
    /\ threads' = [threads EXCEPT ![t].pc = "iterating",
                                  ![t].used = Cardinality(DOMAIN conversations)]
    /\ UNCHANGED <<kbvars, fsvars, chatvars, textvars, clients, crawl>>

\* the iteration itself: a dict whose size has changed since the iterator
\* was created raises RuntimeError, which the handler of get_response
\* catches; otherwise the expired keys are collected
ThreadCleanupScan(t) ==
    /\ threads[t].pc = "iterating"
    /\ IF Cardinality(DOMAIN conversations) # threads[t].used
       THEN threads' = [threads EXCEPT ![t].pc = "except"]
       ELSE threads' = [threads EXCEPT
                          ![t].pc = "delete",
                          ![t].keys_to_remove =
                              {k \in DOMAIN conversations :
                                  now - conversations[k].last_activity > max_age}]
    /\ UNCHANGED <<kbvars, fsvars, chatvars, textvars, clients, crawl>>

\* for key in keys_to_remove: del self.conversations[key], which raises
\* KeyError for a key that is no longer there
ThreadCleanupDelete(t) ==
    /\ threads[t].pc = "delete"
    /\ conversations' = [k \in DOMAIN conversations \ threads[t].keys_to_remove |->
                            conversations[k]]
    /\ threads' = [threads EXCEPT
                     ![t].pc = IF threads[t].keys_to_remove \subseteq DOMAIN conversations
                               THEN "respond" ELSE "except"]
    /\ UNCHANGED <<kbvars, fsvars, now, similarity_threshold, response, textvars,
                   clients, crawl>>

\* lines 84-108: retrieval, generation, and the reply added to the
\* conversation object the thread holds
ThreadRespond(t) ==
    LET key == conversation_key(threads[t].company_id, threads[t].session_id)
        vector_matches ==
            search_vectors_with_fallback(vectors_csv, knowledge_cache, files,
                threads[t].message, <<1, 0>>, threads[t].company_id,
                similarity_threshold, "none")
        llm_response == generate_response(threads[t].message, vector_matches, "none")
    IN /\ threads[t].pc = "respond"
       /\ conversations' =
             IF key \in DOMAIN conversations
             THEN CachePut(conversations, key,
                      add_message(conversations[key], "assistant",
                                  llm_response.response, now))
             ELSE conversations
       /\ knowledge_cache' =
             EnsureLoaded(knowledge_cache, files, threads[t].company_id)
       /\ threads' = [threads EXCEPT ![t].pc = "done", ![t].result = "normal"]
       /\ UNCHANGED <<files, clock, next_id, last, returned, fsvars, now,
                      similarity_threshold, response, textvars, clients, crawl>>

\* lines 110-121: the handler returns the apology
ThreadExcept(t) ==
    /\ threads[t].pc = "except"
    /\ threads' = [threads EXCEPT ![t].pc = "done", ![t].result = "apology"]
    /\ UNCHANGED <<kbvars, fsvars, chatvars, textvars, clients, crawl>>

\* more than 24 hours pass while no call is in progress
Wait ==
    /\ \A t \in Threads : threads[t].pc \in {"idle", "done"}
    /\ now <= max_age
    /\ now' = now + max_age + 1
    /\ UNCHANGED <<kbvars, fsvars, conversations, similarity_threshold, response,
                   textvars, appvars>>

ThreadNext ==
    \/ \E t \in Threads, m \in {<<"d", "a", "d">>}, c \in {<<"_">>} :
          \E sid \in ThreadSessions(t) : ThreadEnter(t, m, c, sid)
    \/ \E t \in Threads : ThreadCleanupIter(t)
    \/ \E t \in Threads : ThreadCleanupScan(t)
    \/ \E t \in Threads : ThreadCleanupDelete(t)
    \/ \E t \in Threads : ThreadRespond(t)
    \/ \E t \in Threads : ThreadExcept(t)
    \/ Wait

(***************************************************************************)
(* WebScraper.scrape_website (chatbot/core/scraper.py): the crawl loop,    *)
(* one iteration per step.  A URL is a string; what a fetched page links   *)
(* to is chosen when the page is fetched.                                  *)
(***************************************************************************)
\* the URLs of the model, in the order their anchors appear in a page:
\* three pages of one site, one of them also addressed with a fragment,
\* and a page of another site
UrlOrder == <<"s", "p", "p#f", "q", "x">>

Urls == {UrlOrder[i] : i \in 1..Len(UrlOrder)}

\* urlparse(url).netloc
Domain(url) == IF url = "x" THEN "other" ELSE "site"

\* urlunparse of the parsed URL with the fragment left out
CleanUrl(url) == IF url = "p#f" THEN "p" ELSE url

MaxPages == 3        \* scraper.max_pages of the configuration
MaxDepth == 1        \* max_depth of a call
MaxAnchors == 2      \* anchors in one page

\* the anchors of a page, as the hrefs in document order
AnchorLists ==
    {SelectSeq(UrlOrder, LAMBDA u : u \in S) :
        S \in {T \in SUBSET Urls : Cardinality(T) <= MaxAnchors}}

RECURSIVE ExtractLinks(_, _, _)
\* the loop of _extract_links: an anchor of the page's domain that is not
\* yet in links is appended without its fragment
ExtractLinks(anchors, base_url, links) ==
    IF anchors = <<>> THEN links
    ELSE ExtractLinks(Tail(anchors), base_url,
            IF /\ Domain(Head(anchors)) = Domain(base_url)
               /\ ~\E i \in 1..Len(links) : links[i] = Head(anchors)
            THEN Append(links, CleanUrl(Head(anchors)))
            ELSE links)

_extract_links(anchors, base_url) == ExtractLinks(anchors, base_url, <<>>)

NoCrawl ==
    [pc |-> "idle", url |-> "", include_links |-> FALSE, max_depth |-> 0,
     max_pages |-> 0, pages |-> <<>>, visited_urls |-> {},
     urls_to_scrape |-> <<>>, links |-> [u \in Urls |-> {}]]

\* one iteration of the while loop without the test of visited_urls
scrape_iteration_unvisited(c, page_ok, anchors) ==
    LET cur == Head(c.urls_to_scrape)
        rest == Tail(c.urls_to_scrape)
    IN IF cur.depth > c.max_depth \/ ~page_ok
       THEN [c EXCEPT !.urls_to_scrape = rest]
       ELSE LET links == _extract_links(anchors, cur.url)
                visited1 == c.visited_urls \cup {cur.url}
                follow == IF c.include_links /\ cur.depth < c.max_depth
                          THEN SelectSeq(links,
                                  LAMBDA l : Domain(l) = Domain(c.url))
                          ELSE <<>>
            IN [c EXCEPT
                  !.urls_to_scrape =
                      rest \o [i \in 1..Len(follow) |->
                                  [url |-> follow[i], depth |-> cur.depth + 1]],
                  !.pages = Append(@, cur.url),
                  !.visited_urls = visited1,
                  !.links[cur.url] = {CleanUrl(anchors[i]) : i \in 1..Len(anchors)}]

\* one iteration of the while loop: page_ok is whether _scrape_page
\* returned a page (no blocked extension, no request or parse error, not
\* too large), anchors are the hrefs of the page
scrape_iteration(c, page_ok, anchors) ==
    LET cur == Head(c.urls_to_scrape)
        rest == Tail(c.urls_to_scrape)
    IN IF cur.url \in c.visited_urls \/ cur.depth > c.max_depth \/ ~page_ok
       THEN [c EXCEPT !.urls_to_scrape = rest]
       ELSE LET links == _extract_links(anchors, cur.url)
                visited1 == c.visited_urls \cup {cur.url}
                follow == IF c.include_links /\ cur.depth < c.max_depth
                          THEN SelectSeq(links,
                                  LAMBDA l : /\ Domain(l) = Domain(c.url)
                                             /\ l \notin visited1)
                          ELSE <<>>
            IN [c EXCEPT
                  !.urls_to_scrape =
                      rest \o [i \in 1..Len(follow) |->
                                  [url |-> follow[i], depth |-> cur.depth + 1]],
                  !.pages = Append(@, cur.url),
                  !.visited_urls = visited1,
                  !.links[cur.url] = {CleanUrl(anchors[i]) : i \in 1..Len(anchors)}]

\* lines 51-65: a valid URL of an allowed domain starts the crawl
ScrapeWebsite(url, include_links, max_depth, max_pages) ==
    /\ crawl.pc = "idle"
    /\ crawl' = [NoCrawl EXCEPT !.pc = "loop", !.url = url,
                                !.include_links = include_links,
                                !.max_depth = max_depth,
                                !.max_pages = max_pages,
                                !.urls_to_scrape = <<[url |-> url, depth |-> 0]>>]
    /\ UNCHANGED <<kbvars, fsvars, chatvars, textvars, clients, threads>>

\* lines 69-93
ScrapeIteration(page_ok, anchors) ==
    /\ crawl.pc = "loop"
    /\ crawl.urls_to_scrape # <<>>
    /\ Len(crawl.pages) < crawl.max_pages
    /\ crawl' = scrape_iteration(crawl, page_ok, anchors)
    /\ UNCHANGED <<kbvars, fsvars, chatvars, textvars, clients, threads>>

\* lines 95-102: the loop has ended and the pages are returned
ScrapeReturn ==
    /\ crawl.pc = "loop"
    /\ crawl.urls_to_scrape = <<>> \/ Len(crawl.pages) >= crawl.max_pages
    /\ crawl' = [crawl EXCEPT !.pc = "done"]
    /\ UNCHANGED <<kbvars, fsvars, chatvars, textvars, clients, threads>>

ScraperNext ==
    \/ \E url \in Urls, include_links \in BOOLEAN, max_depth \in 0..MaxDepth,
          max_pages \in 1..MaxPages :
          ScrapeWebsite(url, include_links, max_depth, max_pages)
    \/ \E page_ok \in BOOLEAN, anchors \in AnchorLists :
          ScrapeIteration(page_ok, anchors)
    \/ ScrapeReturn

(***************************************************************************)
(* Response post-processing: limit_response_sentences                      *)
(* (chatbot/core/chatbot_engine.py, chatbot/chatbot_engine.py,             *)
(* client_manager/admin_dashboard.py: the same code three times)           *)
(***************************************************************************)
SentenceEnds == {".", "!", "?"}
Digits == {"1", "2"}

MinSentenceLen == 10     \* len(sentence) > 10
TruncateWords == 20      \* len(words) > 20

\* index of the last character of the run of characters of set cs that
\* starts at i; i - 1 if s[i] is not in cs
RunEnd(s, i, cs) ==
    CHOOSE j \in (i - 1)..Len(s) :
        /\ \A k \in i..j : s[k] \in cs
        /\ j = Len(s) \/ s[j + 1] \notin cs

\* a match of [.!?]+(?:\s+|$) starts at i: a run of sentence ends that is
\* followed by whitespace or by the end of the text
SentenceEndAt(s, i) ==
    /\ s[i] \in SentenceEnds
    /\ LET j == RunEnd(s, i, SentenceEnds)
       IN j = Len(s) \/ s[j + 1] \in Whitespace

\* re.split(r'[.!?]+(?:\s+|$)', s): cut at the first match at or after i,
\* then split what follows the match
RECURSIVE SplitSentenceAt(_, _)
SplitSentenceAt(s, i) ==
    LET found == {m \in i..Len(s) : SentenceEndAt(s, m)}
    IN IF found = {} THEN <<s>>
       ELSE LET m == Least(found)
                j == RunEnd(s, m, SentenceEnds)
                k == RunEnd(s, j + 1, Whitespace)
            IN <<SubSeq(s, 1, m - 1)>>
               \o SplitSentenceAt(SubSeq(s, k + 1, Len(s)), 1)

SplitSentences(s) == SplitSentenceAt(s, 1)

\* the end of a match of \s+\d+\. that starts at i, 0 if there is none
NumberedEnd(s, i) ==
    LET j == RunEnd(s, i, Whitespace)
        k == RunEnd(s, j + 1, Digits)
    IN IF j >= i /\ k > j /\ k + 1 <= Len(s) /\ s[k + 1] = "." THEN k + 1 ELSE 0

\* the end of a match of (?:\n|\s+\d+\.) that starts at i, 0 if there is none
ListItemEnd(s, i) == IF s[i] = "\n" THEN i ELSE NumberedEnd(s, i)

\* re.split(r'(?:\n|\s+\d+\.)', s): cut at the first match at or after i,
\* then split what follows the match
RECURSIVE SplitListAt(_, _)
SplitListAt(s, i) ==
    LET found == {m \in i..Len(s) : ListItemEnd(s, m) > 0}
    IN IF found = {} THEN <<s>>
       ELSE LET m == Least(found)
            IN <<SubSeq(s, 1, m - 1)>>
               \o SplitListAt(SubSeq(s, ListItemEnd(s, m) + 1, Len(s)), 1)

RECURSIVE Flatten(_)
Flatten(ss) == IF ss = <<>> THEN <<>> ELSE Head(ss) \o Flatten(Tail(ss))

\* the parts of all sentences, stripped, the blank ones left out
AllParts(sentences) ==
    LET kept == SelectSeq(sentences, LAMBDA x : strip(x) # <<>>)
        parts(x) == SelectSeq([i \in 1..Len(SplitListAt(strip(x), 1)) |->
                                  strip(SplitListAt(strip(x), 1)[i])],
                              LAMBDA y : y # <<>>)
    IN Flatten([i \in 1..Len(kept) |-> parts(kept[i])])

\* re.sub(r'^\d+\.\s*', '', sentence)
RemoveLeadingNumber(s) ==
    LET k == RunEnd(s, 1, Digits)
    IN IF k >= 1 /\ k + 1 <= Len(s) /\ s[k + 1] = "."
       THEN SubSeq(s, RunEnd(s, k + 2, Whitespace) + 1, Len(s))
       ELSE s

\* '. '.join(parts)
RECURSIVE JoinSentences(_)
JoinSentences(parts) ==
    IF parts = <<>> THEN <<>>
    ELSE IF Len(parts) = 1 THEN parts[1]
    ELSE parts[1] \o <<".", " ">> \o JoinSentences(Tail(parts))

\* ' '.join(words)
RECURSIVE JoinWords(_)
JoinWords(words) ==
    IF words = <<>> THEN <<>>
    ELSE IF Len(words) = 1 THEN words[1]
    ELSE words[1] \o <<" ">> \o JoinWords(Tail(words))

\* str.split(): the words between runs of whitespace
RECURSIVE Words(_)
Words(s) ==
    IF s = <<>> THEN <<>>
    ELSE IF Head(s) \in Whitespace THEN Words(Tail(s))
    ELSE LET n == RunEnd(s, 1, {c \in {s[i] : i \in 1..Len(s)} :
                                    c \notin Whitespace})
         IN <<SubSeq(s, 1, n)>> \o Words(SubSeq(s, n + 1, Len(s)))

\* limit_response_sentences / ChatbotEngine._limit_response_sentences
limit_response_sentences(text, max_sentences) ==
    IF strip(text) = <<>> THEN text
    ELSE LET all_parts == AllParts(SplitSentences(strip(text)))
             cleaned == [i \in 1..Len(all_parts) |->
                            RemoveLeadingNumber(strip(all_parts[i]))]
             clean_sentences ==
                 SelectSeq(cleaned, LAMBDA x : x # <<>> /\ Len(x) > MinSentenceLen)
             limited_sentences ==
                 SubSeq(clean_sentences, 1,
                        IF Len(clean_sentences) < max_sentences
                        THEN Len(clean_sentences) ELSE max_sentences)
             result == JoinSentences(limited_sentences)
             words == Words(text)
         IN IF limited_sentences # <<>>
            THEN (IF result[Len(result)] \in SentenceEnds THEN result
                  ELSE result \o <<".">>)
            ELSE IF Len(words) > TruncateWords
            THEN JoinWords(SubSeq(words, 1, TruncateWords)) \o <<".", ".", ".">>
            ELSE text

\* the sentence-like fragments of a text: its non-blank sentences
SentenceFragments(text) ==
    SelectSeq(SplitSentences(strip(text)), LAMBDA x : strip(x) # <<>>)

LimitResponseSentences(text, max_sentences) ==
    /\ pure.op = "none"
    /\ pure' = [op |-> "limit_response_sentences", text |-> text,
                max_sentences |-> max_sentences,
                result |-> limit_response_sentences(text, max_sentences)]
    /\ UNCHANGED <<kbvars, fsvars, chatvars, appvars>>

(***************************************************************************)
(* TextChunker (chatbot/training_pipeline.py).  A text is its sequence of  *)
(* words, each with what follows it: a blank, the end of a sentence, or    *)
(* the blank line that ends a paragraph.                                   *)
(***************************************************************************)
WordEnds == {"blank", "sentence", "paragraph"}

\* the pieces of a text, cut after every word whose end is in ends
RECURSIVE SplitAfter(_, _)
SplitAfter(text, ends) ==
    IF text = <<>> THEN <<>>
    ELSE IF \E i \in 1..Len(text) : text[i].end \in ends
    THEN LET i == CHOOSE i \in 1..Len(text) :
                    /\ text[i].end \in ends
                    /\ \A j \in 1..(i - 1) : text[j].end \notin ends
         IN <<SubSeq(text, 1, i)>> \o SplitAfter(SubSeq(text, i + 1, Len(text)), ends)
    ELSE <<text>>

\* TextChunker._chunk_by_paragraphs: content.split('\n\n'), blank ones dropped
_chunk_by_paragraphs(content) ==
    LET paragraphs == SplitAfter(content, {"paragraph"})
    IN IF paragraphs # <<>> THEN paragraphs ELSE <<content>>

\* nltk.sent_tokenize
sent_tokenize(content) == SplitAfter(content, {"sentence", "paragraph"})

\* the loop of _chunk_by_sentences over the sentences that are left
RECURSIVE GroupSentences(_, _, _)
GroupSentences(sentences, current_chunk, chunk_size) ==
    IF sentences = <<>>
    THEN (IF current_chunk # <<>> THEN <<current_chunk>> ELSE <<>>)
    ELSE IF Len(current_chunk) + Len(Head(sentences)) > chunk_size
            /\ current_chunk # <<>>
    THEN <<current_chunk>>
         \o GroupSentences(Tail(sentences), Head(sentences), chunk_size)
    ELSE GroupSentences(Tail(sentences), current_chunk \o Head(sentences),
                        chunk_size)

\* TextChunker._chunk_by_sentences
_chunk_by_sentences(content, chunk_size) ==
    GroupSentences(sent_tokenize(content), <<>>, chunk_size)

\* words[i:i + n] for an offset i counted from 0
Slice(words, i, n) ==
    SubSeq(words, i + 1, IF i + n < Len(words) THEN i + n ELSE Len(words))

\* a plausible slip: the window is widened by the overlap
_chunk_by_words_wide(content, chunk_size, overlap) ==
    LET step == chunk_size - overlap
    IN IF step <= 0 THEN <<>>
       ELSE [k \in 1..((Len(content) + step - 1) \div step) |->
                Slice(content, (k - 1) * step, chunk_size + overlap)]

\* TextChunker._chunk_by_words for a step that is not 0:
\* range(0, len(words), step) is empty for a negative step
_chunk_by_words(content, chunk_size, overlap) ==
    LET step == chunk_size - overlap
    IN IF step <= 0 THEN <<>>
       ELSE [k \in 1..((Len(content) + step - 1) \div step) |->
                Slice(content, (k - 1) * step, chunk_size)]

\* TextChunker.chunk_text; range() raises ValueError for a step of 0, and
\* chunk_text does not catch it
TextChunker_chunk_text(content, chunk_size, overlap) ==
    IF content = <<>> THEN [raised |-> FALSE, chunks |-> <<>>]
    ELSE LET paragraph_chunks == _chunk_by_paragraphs(content)
             sentence_chunks ==
                 Flatten([i \in 1..Len(paragraph_chunks) |->
                    IF Len(paragraph_chunks[i]) > chunk_size
                    THEN _chunk_by_sentences(paragraph_chunks[i], chunk_size)
                    ELSE <<paragraph_chunks[i]>>])
             final_chunks ==
                 Flatten([i \in 1..Len(sentence_chunks) |->
                    IF Len(sentence_chunks[i]) > chunk_size
                    THEN _chunk_by_words(sentence_chunks[i], chunk_size, overlap)
                    ELSE <<sentence_chunks[i]>>])
             text_chunks ==
                 [i \in 1..Len(final_chunks) |->
                    [content |-> final_chunks[i], chunk_index |-> i - 1,
                     word_count |-> Len(final_chunks[i])]]
         IN IF chunk_size = overlap
               /\ \E i \in 1..Len(sentence_chunks) :
                     Len(sentence_chunks[i]) > chunk_size
            THEN [raised |-> TRUE, chunks |-> <<>>]
            ELSE [raised |-> FALSE,
                  chunks |-> SelectSeq(text_chunks,
                                       LAMBDA c : c.content # <<>>)]

ChunkText(content, chunk_size, overlap) ==
    /\ pure.op = "none"
    /\ pure' = [op |-> "chunk_text", content |-> content,
                chunk_size |-> chunk_size, overlap |-> overlap]
               @@ TextChunker_chunk_text(content, chunk_size, overlap)
    /\ UNCHANGED <<kbvars, fsvars, chatvars, appvars>>

(***************************************************************************)
(* ContentAnalyzer (chatbot/training_pipeline.py).  Scores are in tenths.  *)
(* A content is a sequence of words as for the chunker, the word itself a  *)
(* string; a '.', '!' or '?' stands at the end of a sentence.              *)
(***************************************************************************)
ShortContentWords == 10      \* word_count < 10
LongSentenceWords == 50      \* word_count / sentence_count > 50

\* content.lower().split()
LowerWords(content) == [i \in 1..Len(content) |-> lower(content[i].word)]

\* any(char in content for char in '.!?')
HasSentenceEnd(content) == \E i \in 1..Len(content) : content[i].end = "sentence"

\* a plausible slip: content of exactly 10 words counts as very short
_calculate_quality_score_le(content, word_count, sentence_count) ==
    LET words == LowerWords(content)
        score == 10
                 - (IF word_count <= ShortContentWords THEN 3 ELSE 0)
                 - (IF sentence_count > 0
                       /\ word_count > LongSentenceWords * sentence_count
                    THEN 2 ELSE 0)
                 - (IF ~HasSentenceEnd(content) THEN 2 ELSE 0)
                 - (IF 2 * Cardinality({words[i] : i \in 1..Len(words)}) < Len(words)
                    THEN 1 ELSE 0)
    IN IF score < 0 THEN 0 ELSE score

\* ContentAnalyzer._calculate_quality_score
_calculate_quality_score(content, word_count, sentence_count) ==
    LET words == LowerWords(content)
        score == 10
                 - (IF word_count < ShortContentWords THEN 3 ELSE 0)
                 - (IF sentence_count > 0
                       /\ word_count > LongSentenceWords * sentence_count
                    THEN 2 ELSE 0)
                 - (IF ~HasSentenceEnd(content) THEN 2 ELSE 0)
                 - (IF 2 * Cardinality({words[i] : i \in 1..Len(words)}) < Len(words)
                    THEN 1 ELSE 0)
    IN IF score < 0 THEN 0 ELSE score

\* ContentAnalyzer.analyze_content: the counts and the quality score
analyze_content(content) ==
    LET word_count == Len(content)
        sentence_count == Len(sent_tokenize(content))
    IN [word_count |-> word_count, sentence_count |-> sentence_count,
        quality_score |->
            _calculate_quality_score(content, word_count, sentence_count)]

AnalyzeContent(content) ==
    /\ pure.op = "none"
    /\ pure' = [op |-> "analyze_content", content |-> content]
               @@ analyze_content(content)
    /\ UNCHANGED <<kbvars, fsvars, chatvars, appvars>>

(***************************************************************************)
(* Specifications                                                          *)
(***************************************************************************)
\* the chatbot engine after construction, with the default threshold
NoPure == [op |-> "none"]

ChatIdle ==
    /\ pure = NoPure
    /\ conversations = <<>>
    /\ now = 0
    /\ similarity_threshold = 3
    /\ response = NoResponse
    /\ clients = <<>>
    /\ threads = [t \in Threads |-> IdleThread]
    /\ crawl = NoCrawl

Init == KBInit /\ FsInit /\ ChatIdle

Next == KBNext

\* the ClientManager alone
ClientSpec == Init /\ [][ClientNext]_vars

\* contents written to the shared data directory
StoreContents == {<<"a">>, <<"a", "a">>}

\* the embedding backend answers
StoreEmbeds == {[backend |-> "ok", vector |-> <<1, 0>>]}

\* enhanced_app.create_app: one KnowledgeBase, one ClientManager and the
\* training pipeline work on the same data directory
StoreNext ==
    \/ ClientNext
    \/ \E c \in ClientIds, x \in StoreContents : AddKnowledge(c, x, {}, TRUE)
    \/ \E c \in ClientIds, id \in EntryIds : DeleteKnowledge(c, id, TRUE)
    \/ \E c \in ClientIds, ok \in BOOLEAN : ClearCompanyKnowledge(c, ok)
    \/ \E c \in ClientIds : GetCompanyKnowledge(c)
    \/ \E c \in ClientIds, x \in StoreContents, embed \in StoreEmbeds,
          fail \in {"none", "bridge_open"} :
          ProcessContent(x, c, embed, fail)

StoreSpec == Init /\ [][StoreNext]_vars

\* the three components that add entries, every write succeeding
WritersNext ==
    \/ \E c \in ClientIds : RegisterClient(c)
    \/ \E c \in ClientIds, x \in StoreContents : AddKnowledge(c, x, {}, TRUE)
    \/ \E c \in ClientIds, x \in StoreContents : AddClientKnowledge(c, x, "none")
    \/ \E c \in ClientIds, x \in StoreContents, embed \in StoreEmbeds :
          ProcessContent(x, c, embed, "none")

WritersSpec == Init /\ [][WritersNext]_vars

\* the KnowledgeBase alone
Spec == Init /\ [][Next]_vars

\* the training pipeline writing the CSV files and the JSON bridge
SpecPipeline == Init /\ [][PipelineNext]_vars

\* the three writers of the JSON files, step by step, with crashes
SpecCrash == Init /\ [][CrashNext]_vars

\* the configured similarity_threshold: the default of LLMIntegration or the
\* value of the configuration file, in tenths
Thresholds == {3, 7}

ChatContents == {<<"d", "a", "d">>, <<"d", "a", "d", " ", "d", "a", "d">>,
                 <<"a", "n", "d">>}

ChatQueries == {<<"d", "a", "d">>, <<"D", "a", "d", "?">>, <<"a", "n", "d">>}

\* what _generate_query_embedding returns: an embedding of the stored
\* dimension, the zero vector of a query without words, or an embedding of
\* another dimension
QueryEmbeddings == {<<1, 0>>, <<1, 2>>, <<0, 0>>, <<1, 0, 0>>}

\* what goes wrong during one get_response: nothing, an exception inside
\* search_vectors, inside _fallback_to_traditional_search, inside both, in
\* the LLM client, or in the body of get_response itself
ChatFaults == {"none", "vectors", "kb", "both", "llm", "engine"}

SessionIds == {<<"s">>}

\* the company whose content is trained; messages come for every company
TrainedCompanies == {<<"_">>}

\* the embeddings of the trained chunks: two directions, or no backend
ChatEmbeds == {e \in EmbedOutcomes : e.backend # "error"}

ChatInit ==
    /\ KBInit /\ FsInit
    /\ pure = NoPure
    /\ conversations = <<>>
    /\ now = 0
    /\ similarity_threshold \in Thresholds
    /\ response = NoResponse
    /\ clients = <<>>
    /\ threads = [t \in Threads |-> IdleThread]
    /\ crawl = NoCrawl

\* content is trained through the pipeline before the message arrives
TrainContent(company_id, content, embed) ==
    /\ ~response.called
    /\ ProcessContent(content, company_id, embed, "none")

\* the one message of the behaviour is answered
AnswerMessage(message, company_id, session_id, query_embedding, fault) ==
    /\ ~response.called
    /\ GetResponse(message, company_id, session_id, query_embedding, fault, 1)

ChatNext ==
    \/ \E c \in TrainedCompanies, x \in ChatContents, embed \in ChatEmbeds :
          TrainContent(c, x, embed)
    \/ \E m \in ChatQueries, c \in CompanyIds, sid \in SessionIds,
           q \in QueryEmbeddings, fault \in ChatFaults :
          AnswerMessage(m, c, sid, q, fault)

\* retrieval and response over a trained store
ChatSpec == ChatInit /\ [][ChatNext]_vars

\* values of vector_search.similarity_threshold in the configuration: the
\* default, the value of the default configuration file, and 0.0
ConfiguredThresholds == Thresholds \cup {0}

ConfiguredInit ==
    /\ KBInit /\ FsInit
    /\ pure = NoPure
    /\ conversations = <<>>
    /\ now = 0
    /\ similarity_threshold \in ConfiguredThresholds
    /\ response = NoResponse
    /\ clients = <<>>
    /\ threads = [t \in Threads |-> IdleThread]
    /\ crawl = NoCrawl

\* retrieval under every configured threshold
ConfiguredSpec == ConfiguredInit /\ [][ChatNext]_vars

MaxCalls == 3        \* get_response calls in one behaviour

\* the time between two calls: a second, or just more than 24 hours
Delays == {1, max_age + 1}

SessionQueries == {<<"d", "a", "d">>}

\* messages arrive for conversations whose ids may contain ':', over an
\* empty store
SendMessage(message, company_id, session_id, dt) ==
    /\ response.seq < MaxCalls
    /\ GetResponse(message, company_id, session_id, <<1, 0>>, "none", dt)

SessionNext ==
    \/ \E m \in SessionQueries, c \in ColonIds, sid \in ColonIds, dt \in Delays :
          SendMessage(m, c, sid, dt)
    \/ \E c \in ColonIds, sid \in ColonIds : GetConversationHistory(c, sid)
    \/ \E c \in ColonIds, sid \in ColonIds : ClearConversation(c, sid)
    \/ \E c \in ColonIds, sid \in ColonIds : ClearNoConversation(c, sid)

\* the conversations of the chatbot engine
SessionSpec == Init /\ [][SessionNext]_vars

\* what goes wrong during one call of a dialogue: nothing, an error in the
\* LLM client, or an exception in the body of get_response
DialogueFaults == {"none", "llm", "engine"}

DialogueSessions == {<<"s">>, <<"t">>}

\* one message of a dialogue is answered, normally or with the apology
Converse(message, company_id, session_id, fault) ==
    /\ response.seq < MaxCalls
    /\ GetResponse(message, company_id, session_id, <<1, 0>>, fault, 1)

DialogueNext ==
    \/ \E m \in SessionQueries, c \in TrainedCompanies, sid \in DialogueSessions,
          fault \in DialogueFaults :
          Converse(m, c, sid, fault)
    \/ \E c \in TrainedCompanies, sid \in DialogueSessions :
          ClearConversation(c, sid)
    \/ \E c \in TrainedCompanies, sid \in DialogueSessions :
          ClearNoConversation(c, sid)

\* requests to the knowledge routes of the enhanced API
ApiSpec == Init /\ [][ApiNext]_vars

\* one crawl of the WebScraper
ScraperSpec == Init /\ [][ScraperNext]_vars

\* get_response calls of several threads on one engine
ThreadSpec == Init /\ [][ThreadNext]_vars

\* dialogues of get_response and clear_conversation calls
DialogueSpec == Init /\ [][DialogueNext]_vars

MaxEntries == 6      \* entries of the company searched by the keyword tier

\* eleven occurrences of "dad"
ManyDads == [i \in 1..43 |-> IF i % 4 = 0 THEN " " ELSE IF i % 4 = 2 THEN "a" ELSE "d"]

\* two occurrences of "dad" that overlap, eleven occurrences, and none
KeywordContents == {<<"d", "a", "d", "a", "d">>, ManyDads, <<"a", "n", "d">>}

\* a keyword, the keyword with punctuation, a stop word, the keyword twice
KeywordQueries ==
    {<<"d", "a", "d">>, <<"D", "a", "d", "?">>, <<"a", "n", "d">>,
     <<"d", "a", "d", " ", "d", "a", "d">>}

KeywordNext ==
    \E query \in KeywordQueries, c \in TrainedCompanies,
       contents \in UNION {[1..n -> KeywordContents] : n \in 0..MaxEntries} :
       FallbackSearch(query, c, contents)

\* the keyword tier applied to one query and one store
KeywordSpec == Init /\ [][KeywordNext]_vars

MaxSentences == 4    \* sentences of a response text
MaxLimit == 3        \* largest max_sentences

\* a short sentence, one of 11 characters, and one of two long lines
SentenceKinds ==
    {<<"A">>,
     <<"a", "a", "a", "a", "a", " ", "a", "a", "a", "a", "a">>,
     <<"a", "a", "a", "a", "a", "a", "a", "a", "a", "a", "a", "\n",
       "b", "b", "b", "b", "b", "b", "b", "b", "b", "b", "b">>}

\* the text of the given sentences, each ended by a period
TextOf(sentences) ==
    JoinWords([i \in 1..Len(sentences) |-> sentences[i] \o <<".">>])

\* response texts: up to MaxSentences sentences, and 21 one-letter sentences
ResponseTexts ==
    {TextOf(ss) : ss \in UNION {[1..n -> SentenceKinds] : n \in 1..MaxSentences}}
    \cup {TextOf([i \in 1..(TruncateWords + 1) |-> <<"A">>])}

SentenceNext ==
    \E text \in ResponseTexts, n \in 1..MaxLimit : LimitResponseSentences(text, n)

\* limit_response_sentences applied to one text
SentenceSpec == Init /\ [][SentenceNext]_vars

MaxWords == 4        \* words of a text given to the chunker
MaxChunkSize == 3    \* largest chunk_size
MaxOverlap == 3      \* largest overlap

\* the texts of n distinct words, with every choice of what follows each
ChunkerTexts ==
    UNION {{[i \in 1..n |-> [word |-> i, end |-> ends[i]]] :
               ends \in [1..n -> WordEnds]} : n \in 1..MaxWords}

ChunkerNext ==
    \E content \in ChunkerTexts, chunk_size \in 1..MaxChunkSize,
       overlap \in 0..MaxOverlap : ChunkText(content, chunk_size, overlap)

\* TextChunker.chunk_text applied to one text
ChunkerSpec == Init /\ [][ChunkerNext]_vars

MaxTextWords == 51   \* words of a content given to the analyzer
MaxVocabulary == 3   \* different spellings used in one content

\* the k-th spelling: "Dad" and "dad" differ only by case, the others are
\* "and", "andd", ...
Vocabulary ==
    [k \in 1..MaxVocabulary |->
        IF k = 1 THEN <<"D", "a", "d">>
        ELSE IF k = 2 THEN <<"d", "a", "d">>
        ELSE <<"a", "n">> \o [j \in 1..(k - 2) |-> "d"]]

\* a sentence ends after every period-th word; 0 is a content without any
\* sentence end
SentencePeriods == {0, 1, MaxTextWords}

\* the content of n words that cycles through the first d spellings
AnalyzerText(n, d, period) ==
    [i \in 1..n |->
        [word |-> Vocabulary[((i - 1) % d) + 1],
         end |-> IF period > 0 /\ i % period = 0 THEN "sentence" ELSE "blank"]]

AnalyzerNext ==
    \E n \in 0..MaxTextWords, d \in 1..MaxVocabulary, period \in SentencePeriods :
        AnalyzeContent(AnalyzerText(n, d, period))

\* ContentAnalyzer.analyze_content applied to one content
AnalyzerSpec == Init /\ [][AnalyzerNext]_vars

(***************************************************************************)
(* Properties of the KnowledgeBase                                         *)
(***************************************************************************)
Mutators == {"add", "update", "delete", "clear"}

\* C1: two consecutive successful add_knowledge(c, x) calls, x not stored
\* for c before the first, leave exactly one more entry for c than before
\* the first call, and the second call returns the id the first returned.
C1_AddTwiceOneEntry ==
    [][(/\ last.op = "add" /\ ~last.raised /\ ~last.was_stored
        /\ last'.op = "add" /\ ~last'.raised /\ clock' = clock + 1
        /\ last'.company_id = last.company_id
        /\ last'.content = last.content)
       => (/\ last'.ret_id = last.ret_id
           /\ Len(CacheGet(knowledge_cache', last.company_id))
                 = last.len_before + 1)]_vars

\* C2: no company holds two entries with identical content.
C2_NoDuplicateContent ==
    \A c \in DOMAIN knowledge_cache :
        \A i, j \in 1..Len(knowledge_cache[c]) :
            i # j => knowledge_cache[c][i].content # knowledge_cache[c][j].content

\* C3: a listing or search for c1 returns only entries added for c1, and a
\* mutating call for another company changes neither the file nor the
\* listing of c1.
C3_CompanyIsolation ==
    [][clock' = clock + 1 =>
        \A c1 \in CompanyIds :
            /\ (last'.op \in {"get", "search"} /\ last'.company_id = c1)
                  => \A i \in 1..Len(returned') : returned'[i].company_id = c1
            /\ (last'.op \in Mutators /\ last'.company_id # c1)
                  => /\ files'[_get_company_file_path(c1)]
                          = files[_get_company_file_path(c1)]
                     /\ get_company_knowledge(knowledge_cache', files', c1)
                          = get_company_knowledge(knowledge_cache, files, c1)]_vars

\* C4: when the durable write fails during add_knowledge the call raises and
\* the company's in-memory list is what it was before the call.
C4_AddWriteFailureRollsBack ==
    [][(last'.op = "add" /\ last'.write_failed /\ clock' = clock + 1)
       => (/\ last'.raised
           /\ CacheGet(knowledge_cache', last'.company_id)
                 = CacheGet(knowledge_cache, last'.company_id))]_vars

\* C5: when the durable write fails during delete_knowledge or
\* update_knowledge the call reports failure, the in-memory entries are
\* unchanged and they still equal the entries in durable storage.
C5_WriteFailureKeepsNoPartialState ==
    [][(last'.op \in {"delete", "update"} /\ last'.write_failed
        /\ clock' = clock + 1)
       => LET c == last'.company_id
              before == get_company_knowledge(knowledge_cache, files, c)
          IN /\ ~last'.ret_ok
             /\ CacheGet(knowledge_cache', c) = before
             /\ (before = LoadedEntries(files, c)
                   => CacheGet(knowledge_cache', c) = LoadedEntries(files', c))]_vars

(***************************************************************************)
(* Properties of the storage writers                                       *)
(***************************************************************************)
\* C6: at every instant a reader of a company's JSON file sees a complete
\* file, and while a writer is at work the file is either the complete
\* previous one or the complete new one.
C6_AtomicReplace ==
    /\ \A stem \in FileStems : files[stem].state # "partial"
    /\ writer.who # "none"
          => files[_sanitize_filename(writer.company_id)] \in {writer.old, writer.new}

DataRowIds(csv) ==
    {csv.rows[i].id : i \in {j \in 1..Len(csv.rows) : csv.rows[j].kind = "data"}}

ChunkRowIds(csv) ==
    {csv.rows[i].knowledge_id :
        i \in {j \in 1..Len(csv.rows) : csv.rows[j].kind = "data"}}

BridgeIds(f) == {f.knowledge[i].id : i \in 1..Len(f.knowledge)}

\* C7: a process_content call that reports failure leaves no row with its
\* knowledge id in knowledge.csv, vectors.csv, analysis.csv or the JSON
\* bridge and leaves the stored entries as they were; a call that reports
\* success leaves its entry in all four.
C7_ProcessContentAtomic ==
    [][(processed'.called /\ clock' = clock + 1)
       => LET c == processed'.company_id
              id == next_id
              path == _sanitize_filename(c)
          IN IF processed'.ok
             THEN /\ id \in DataRowIds(knowledge_csv'[c])
                  /\ id \in ChunkRowIds(vectors_csv'[c])
                  /\ id \in ChunkRowIds(analysis_csv'[c])
                  /\ files'[path].state = "complete"
                  /\ id \in BridgeIds(files'[path])
             ELSE /\ id \notin DataRowIds(knowledge_csv'[c])
                  /\ id \notin ChunkRowIds(vectors_csv'[c])
                  /\ id \notin ChunkRowIds(analysis_csv'[c])
                  /\ id \notin BridgeIds(files'[path])
                  /\ DataRowIds(knowledge_csv'[c]) = DataRowIds(knowledge_csv[c])
                  /\ files'[path] = files[path]]_vars

\* the vector tier and the keyword tier for the query of the last response
VectorTier ==
    search_vectors(vectors_csv, response.query_embedding, response.company_id,
                   similarity_threshold, response.fault)

KeywordTier ==
    _fallback_to_traditional_search(knowledge_cache, files, response.query,
                                    response.company_id, response.fault)

\* the last get_response got as far as the retrieval and the composition
Retrieved == response.called /\ response.fault # "engine"

\* C8: the list returned by search_vectors_with_fallback is ordered by score,
\* highest first, and holds no match whose score is below the threshold of
\* the tier that produced it: similarity_threshold for the vector tier, 0.1
\* for the keyword tier.
C8_SortedAboveThreshold ==
    response.called =>
        LET m == response.matches
            threshold == IF response.tier = "vector"
                         THEN Tenths(similarity_threshold)
                         ELSE Tenths(KeywordThreshold)
        IN /\ \A i \in 1..Len(m) : \A j \in (i + 1)..Len(m) :
                 ScoreGE(m[i].similarity_score, m[j].similarity_score)
           /\ \A i \in 1..Len(m) : ScoreGE(m[i].similarity_score, threshold)

\* two chunks pass the threshold with different scores, the later row of the
\* file first in the result
C8_Witness ==
    /\ response.called
    /\ response.tier = "vector"
    /\ Len(response.matches) >= 2
    /\ ~ScoreGE(response.matches[2].similarity_score,
                response.matches[1].similarity_score)
    /\ response.matches[1].knowledge_id > response.matches[2].knowledge_id

\* C9: when the vector tier yields an empty list (no vectors file, no chunk
\* at or above the threshold, an internal error), the result of
\* search_vectors_with_fallback is exactly the keyword tier's output for the
\* same query and store; when the vector tier is not empty, the result is
\* its output, unchanged.
C9_FallbackEqualsKeywordTier ==
    Retrieved =>
        response.matches = IF VectorTier = <<>> THEN KeywordTier ELSE VectorTier

\* a vectors file with chunks, none of them at or above the threshold, and a
\* keyword tier that finds something
C9_Witness ==
    /\ response.called
    /\ response.fault = "none"
    /\ DataRows(vectors_csv[response.company_id]) # <<>>
    /\ VectorTier = <<>>
    /\ response.matches # <<>>
    /\ response.matches = KeywordTier

\* C10: when both retrieval tiers return no match, in particular for a
\* company without any knowledge, get_response returns a clarification
\* response: needs_clarification true, confidence 0, no sources, and it does
\* not raise.
C10_EmptyTiersAskForClarification ==
    (response.called /\ VectorTier = <<>> /\ KeywordTier = <<>>) =>
        /\ response.needs_clarification
        /\ response.confidence.num = 0
        /\ response.sources = <<>>
        /\ ~response.raised

\* a message for a company without vectors file and without knowledge file
C10_Witness ==
    /\ response.called
    /\ response.fault = "none"
    /\ ~vectors_csv[response.company_id].exists
    /\ files[_get_company_file_path(response.company_id)].state = "absent"
    /\ response.matches = <<>>
    /\ response.needs_clarification

\* C11: generate_response asks for clarification exactly when the match list
\* is empty or its top score is below clarification_threshold, and in both
\* cases the confidence is the top score, or 0 without any match.
C11_ClarificationBelowThreshold ==
    Retrieved =>
        LET m == response.matches
            weak == \/ m = <<>>
                    \/ ~ScoreGE(m[1].similarity_score,
                                Tenths(clarification_threshold))
        IN /\ response.needs_clarification = weak
           /\ response.confidence =
                 (IF m = <<>> THEN ZeroScore ELSE m[1].similarity_score)

\* matches were found, the best of them below clarification_threshold
C11_Witness ==
    /\ response.called
    /\ response.matches # <<>>
    /\ response.needs_clarification
    /\ response.confidence.num > 0
    /\ ~ScoreGE(response.confidence, Tenths(clarification_threshold))

\* the texts get_response can return
ReplyTexts == {<<"answer">>, <<"fallback">>, <<"clarification">>, <<"apology">>}

\* C13: get_response never raises: whatever fails (the vectors file, the
\* embedding, the knowledge base, the LLM client, the body itself), it
\* returns a composed or clarification reply or the fixed apology.
C13_GetResponseNeverRaises ==
    response.called =>
        /\ ~response.raised
        /\ response.message \in ReplyTexts
        /\ response.fault = "engine" => response.message = <<"apology">>

\* an exception in the body of get_response ended in the apology
C13_Witness ==
    /\ response.called
    /\ response.fault = "engine"
    /\ response.message = <<"apology">>
    /\ response.needs_clarification

\* C12: for a non-blank text and max_sentences n >= 1 the result of
\* limit_response_sentences has at most n sentence fragments, also when the
\* sentences are 10 characters or shorter ("A. B. C. D." with n = 2 gives 2).
C12_AtMostNSentences ==
    (pure.op = "limit_response_sentences" /\ strip(pure.text) # <<>>) =>
        Len(SentenceFragments(pure.result)) <= pure.max_sentences

\* the words found in the chunks of the last chunk_text call
ChunkedWords ==
    UNION {{pure.chunks[i].content[j].word :
               j \in 1..Len(pure.chunks[i].content)} : i \in 1..Len(pure.chunks)}

\* C14: for a non-blank text, chunk_size >= 1 and any overlap >= 0, also
\* overlap >= chunk_size, the chunks of chunk_text together hold every word
\* of the text.
C14_ChunksCoverEveryWord ==
    pure.op = "chunk_text" =>
        \A i \in 1..Len(pure.content) : pure.content[i].word \in ChunkedWords

\* C15: every chunk returned by chunk_text has at most chunk_size words,
\* whichever stage produced it.
C15_ChunkWithinSize ==
    pure.op = "chunk_text" =>
        \A i \in 1..Len(pure.chunks) :
            /\ pure.chunks[i].word_count <= pure.chunk_size
            /\ Len(pure.chunks[i].content) <= pure.chunk_size

\* a sentence longer than chunk_size was cut into overlapping word windows
C15_Witness ==
    /\ pure.op = "chunk_text"
    /\ pure.overlap > 0
    /\ Len(pure.chunks) >= 2
    /\ Len(pure.content) > pure.chunk_size
    /\ \A i \in 1..Len(pure.content) : pure.content[i].end = "blank"
    /\ pure.chunks[1].word_count = pure.chunk_size
    /\ pure.chunks[2].content[1] = pure.chunks[1].content[pure.chunk_size]

\* the distinct lower-case words of the analysed content
DistinctWords ==
    Cardinality({lower(pure.content[i].word) : i \in 1..Len(pure.content)})

\* C16: for every content, the empty one included, quality_score is within
\* [0.0, 1.0]: 1.0 less 0.3 for fewer than 10 words, less 0.2 for more than
\* 50 words per sentence, less 0.2 without any '.', '!' or '?', less 0.1 when
\* fewer than half of the words are distinct, and never below 0.0.
C16_QualityScoreInRange ==
    pure.op = "analyze_content" =>
        LET expected ==
                10 - (IF pure.word_count < 10 THEN 3 ELSE 0)
                   - (IF pure.sentence_count > 0
                         /\ pure.word_count > 50 * pure.sentence_count
                      THEN 2 ELSE 0)
                   - (IF \A i \in 1..Len(pure.content) :
                            pure.content[i].end # "sentence" THEN 2 ELSE 0)
                   - (IF 2 * DistinctWords < pure.word_count THEN 1 ELSE 0)
        IN /\ pure.quality_score >= 0
           /\ pure.quality_score <= 10
           /\ pure.quality_score = (IF expected < 0 THEN 0 ELSE expected)

\* one sentence of more than 50 words without punctuation, one word repeated
C16_Witness ==
    /\ pure.op = "analyze_content"
    /\ pure.word_count > 50
    /\ pure.sentence_count = 1
    /\ DistinctWords = 1
    /\ pure.quality_score = 5

\* C17: a session is destroyed once it has been inactive for more than 24
\* hours: a message that arrives on such a session starts from an empty
\* history, so the context of the call holds no message from before it.
C17_ExpiredSessionStartsEmpty ==
    (response.called /\ response.expired) =>
        \A i \in 1..Len(response.history) : response.history[i].timestamp = now

\* the (company_id, session_id) pairs of the conversations
Pairs == ColonIds \X ColonIds

\* the pair's session has been inactive for more than 24 hours at time t
Expired(pair, t) ==
    LET key == conversation_key(pair[1], pair[2])
    IN key \in DOMAIN conversations
       /\ t - conversations[key].last_activity > max_age

\* C18: history is kept per (company_id, session_id), ids with ':' included:
\* a message or reply under one pair never shows in the history or context
\* of another pair, and clear_conversation of one pair never removes the
\* history of another.  Only the sweep of expired sessions may empty it.
C18_SessionIsolation ==
    [][\A q \in Pairs :
         LET before == get_conversation_history(conversations, q[1], q[2])
             after == get_conversation_history(conversations', q[1], q[2])
         IN /\ (/\ response'.seq # response.seq
                 /\ <<response'.company_id, response'.session_id>> # q)
                => \/ after = before
                   \/ after = <<>> /\ Expired(q, now')
            /\ (/\ response'.seq = response.seq
                 /\ pure'.op = "clear_conversation"
                 /\ <<pure'.company_id, pure'.session_id>> # q)
                => after = before]_vars

\* C19: add_knowledge with empty or whitespace-only content is rejected
\* before processing: it reports an error, adds no entry to the company's
\* list and persists nothing.
C19_EmptyContentRejected ==
    [][(last'.op = "add" /\ clock' = clock + 1 /\ strip(last'.content) = <<>>)
       => (/\ last'.raised
           /\ CacheGet(knowledge_cache', last'.company_id)
                 = CacheGet(knowledge_cache, last'.company_id)
           /\ files' = files)]_vars

\* C20: after any sequence of process_content calls, with the embedding
\* backend available, unavailable or failing, all chunk rows of a company's
\* vectors.csv carry the same vector_model and the same vector dimension.
C20_OneVectorModelPerCompany ==
    \A c \in AllCompanyIds :
        LET rows == DataRows(vectors_csv[c])
        IN \A i \in 1..Len(rows) : \A j \in 1..Len(rows) :
              /\ rows[i].vector_model = rows[j].vector_model
              /\ Len(rows[i].vector) = Len(rows[j].vector)

(***************************************************************************)
(* Properties of the data directory shared by the KnowledgeBase, the       *)
(* ClientManager and the training pipeline                                 *)
(***************************************************************************)
\* C21: a successful clear_company_knowledge / clear_client_knowledge
\* returns the number of entries that get_company_knowledge /
\* get_client_knowledge listed immediately before the call, and the listing
\* is empty immediately after it.
C21_ClearReturnsListedCount ==
    [][/\ \A c \in ClientIds :
            ClearClientKnowledge(c) /\ last'.ret_ok =>
                /\ last'.ret_count = Len(get_client_knowledge(knowledge_csv[c]))
                /\ get_client_knowledge(knowledge_csv'[c]) = <<>>
       /\ \A c \in ClientIds :
            ClearCompanyKnowledge(c, TRUE) =>
                /\ last'.ret_count =
                      Len(get_company_knowledge(knowledge_cache, files, c))
                /\ get_company_knowledge(knowledge_cache', files', c) = <<>>]_vars

\* ids of the entries of a list
IdsOf(entries) == {entries[i].id : i \in 1..Len(entries)}

\* C26: when process_content or add_client_knowledge has reported success
\* for company c and the company's JSON file holds the new entry, a
\* get_company_knowledge(c) of the running KnowledgeBase returns that entry.
C26_RunningInstanceSeesBridge ==
    [][\A c \in ClientIds :
          GetCompanyKnowledge(c) =>
              /\ (/\ processed.called /\ processed.ok
                  /\ processed.company_id = c
                  /\ processed.id \in IdsOf(LoadedEntries(files, c)))
                     => processed.id \in IdsOf(returned')
              /\ (/\ last.op = "add_client_knowledge" /\ last.ret_ok
                  /\ last.company_id = c
                  /\ last.ret_id \in IdsOf(LoadedEntries(files, c)))
                     => last.ret_id \in IdsOf(returned')]_vars

\* C27: a completed add_knowledge, add_client_knowledge or process_content
\* call leaves in the company's JSON file every entry the file held before
\* the call, so that no entry an earlier add wrote is lost.
C27_NoEntryLostBetweenWriters ==
    [][\A c \in ClientIds :
          ((\E x \in StoreContents : AddKnowledge(c, x, {}, TRUE))
           \/ (\E x \in StoreContents : AddClientKnowledge(c, x, "none"))
           \/ (\E x \in StoreContents, embed \in StoreEmbeds :
                  ProcessContent(x, c, embed, "none")))
          => IdsOf(LoadedEntries(files, c)) \subseteq IdsOf(LoadedEntries(files', c))]_vars

\* C28: after a successful add_client_knowledge, delete_client_knowledge or
\* clear_client_knowledge of a client, every file write having succeeded, the
\* client's JSON file lists exactly the entries that are active in the
\* client's knowledge.csv.
C28_BridgeListsActiveEntries ==
    [][\A c \in ClientIds :
          (/\ \/ \E x \in PipelineContents : AddClientKnowledge(c, x, "none")
              \/ \E id \in EntryIds : DeleteClientKnowledge(c, id)
              \/ ClearClientKnowledge(c)
           /\ last'.ret_ok)
          => IdsOf(LoadedEntries(files', c))
                = IdsOf(get_client_knowledge(knowledge_csv'[c]))]_vars

(***************************************************************************)
(* Properties of the keyword tier                                          *)
(***************************************************************************)
RECURSIVE Occurrences(_, _)
\* total occurrences of the keywords in the lower-cased content
Occurrences(keywords, content) ==
    IF keywords = <<>> THEN 0
    ELSE CountSub(Head(keywords), lower(content))
         + Occurrences(Tail(keywords), content)

\* the query's words longer than 2 characters that are not stop words
QueryKeywords(query) ==
    LET words == split(clean(lower(query)))
    IN SelectSeq(words, LAMBDA w : Len(w) >= 3 /\ ~(w \in stop_words))

\* 2 per occurrence, 10 for the whole query, in twentieths
Twentieths(query, content) ==
    2 * Occurrences(QueryKeywords(query), content)
    + (IF IsSubstring(lower(query), lower(content)) THEN 10 ELSE 0)

FallbackRows(csv) ==
    SelectSeq(DataRows(csv), LAMBDA row : row.vector_model \in {"none", "error"})

\* C23: a chunk whose stored vector comes from the fallback path of the
\* vectorizer (vector_model "none" or "error", all zeros) is never among the
\* matches of search_vectors, whatever the configured similarity_threshold
\* and whatever the query.
C23_FallbackVectorNeverMatches ==
    response.called =>
        \A j \in 1..Len(VectorTier) :
            \A i \in 1..Len(FallbackRows(vectors_csv[response.company_id])) :
                LET row == FallbackRows(vectors_csv[response.company_id])[i]
                IN VectorTier[j].chunk_id # <<row.knowledge_id, row.chunk_index>>

(***************************************************************************)
(* Properties of the message histories                                     *)
(***************************************************************************)
\* C25: after any sequence of completed get_response and clear_conversation
\* calls, whether a call answered normally or with the apology, every
\* session's history alternates user, assistant, starting with a user
\* message, each completed get_response having appended one message of
\* each role.
C25_HistoryAlternates ==
    \A key \in DOMAIN conversations :
        LET m == conversations[key].messages
        IN /\ Len(m) % 2 = 0
           /\ \A i \in 1..Len(m) :
                 m[i].role = IF i % 2 = 1 THEN "user" ELSE "assistant"

\* C24: whenever a get_response call of a thread returns while other threads
\* run get_response for other sessions, it returns a normal reply and not the
\* apology, and the history of its session is the history the session had
\* when the call began followed by the user message and the reply, as it
\* would be had the call run alone.
C24_ConcurrentSessionsIndependent ==
    [][\A t \in Threads :
          (ThreadRespond(t) \/ ThreadExcept(t)) =>
              LET key == conversation_key(threads[t].company_id, threads[t].session_id)
                  before == threads[t].history
              IN /\ threads'[t].result = "normal"
                 /\ key \in DOMAIN conversations'
                 /\ Len(conversations'[key].messages) = Len(before) + 2
                 /\ SubSeq(conversations'[key].messages, 1, Len(before)) = before
                 /\ conversations'[key].messages[Len(before) + 1].role = "user"
                 /\ conversations'[key].messages[Len(before) + 1].content =
                        threads[t].message
                 /\ conversations'[key].messages[Len(before) + 2].role = "assistant"]_vars

(***************************************************************************)
(* Properties of the crawl                                                 *)
(***************************************************************************)
RECURSIVE WithinHops(_, _)
\* the URLs at most k link hops from the start URL, over the links of the
\* pages fetched
WithinHops(c, k) ==
    IF k <= 0 THEN {c.url}
    ELSE WithinHops(c, k - 1) \cup UNION {c.links[u] : u \in WithinHops(c, k - 1)}

\* C29: during and after a crawl, the pages collected are at most max_pages,
\* no URL is among them twice, each is at most max_depth link hops from the
\* start URL and on the start URL's domain, and with include_links = false
\* there is at most the start page.
C29_CrawlBounded ==
    crawl.pc # "idle" =>
        /\ Len(crawl.pages) <= crawl.max_pages
        /\ \A i, j \in 1..Len(crawl.pages) :
              i # j => crawl.pages[i] # crawl.pages[j]
        /\ \A i \in 1..Len(crawl.pages) :
              /\ crawl.pages[i] \in WithinHops(crawl, crawl.max_depth)
              /\ Domain(crawl.pages[i]) = Domain(crawl.url)
        /\ ~crawl.include_links => crawl.pages \in {<<>>, <<crawl.url>>}

\* a finished crawl that followed the link of the start page, found on the
\* second page a link back to the start page and a link to a page one hop
\* too deep, on the start page a link to another site, and returned fewer
\* pages than max_pages
C29_Witness ==
    /\ crawl.pc = "done"
    /\ crawl.include_links
    /\ crawl.max_depth = 1
    /\ crawl.pages = <<"s", "p">>
    /\ Len(crawl.pages) < crawl.max_pages
    /\ crawl.links["s"] = {"p", "x"}
    /\ crawl.links["p"] = {"s", "q"}

(***************************************************************************)
(* Properties of the knowledge routes                                      *)
(***************************************************************************)
\* C30: a GET or DELETE /api/knowledge/<company_id> request succeeds only
\* when its X-API-Key is the key of an active client whose client_id is the
\* company_id of the route.
C30_KnowledgeRoutesNeedOwnerKey ==
    [][\A k \in ApiKeys, b \in BodyCompanyIds, c \in ClientIds :
          (/\ \/ ApiGetKnowledge(k, b, c)
              \/ \E ok \in BOOLEAN : ApiClearKnowledge(k, b, c, ok)
           /\ last'.ret_ok)
          => LET i == get_client_by_api_key(clients, k)
             IN /\ i > 0
                /\ clients[i].is_active
                /\ clients[i].client_id = c]_vars

====
